---- MODULE Spec2Model ----
(***************************************************************************)
(* Verification model of som-shahlab/just-the-facts (legacy sources):      *)
(*   legacy/data/tokenizer.py      clinical-text tokenizer configuration   *)
(*   legacy/finetune/tune_eval.py  fine-tuning and evaluation driver       *)
(*                                                                         *)
(* Spelling gives the characters of every string, so that the regular      *)
(* expressions and the whitespace splitting act on characters.             *)
(***************************************************************************)
EXTENDS Integers, Sequences, FiniteSets, TLC

VARIABLES
  special_cases,  \* tokenizer.py: the module-level list of (term, attrib)
  order,          \* the order in which the entries are added (<<0, 0>>: list order)
  tpc,            \* position of the ct_tokenizer caller
  idx,            \* iterations of "for term, attrib in special_cases" done
  rules,          \* exception table of the tokenizer under construction / returned
  visited,        \* list positions the loading loop has visited, in order
  calls,          \* number of ct_tokenizer calls that have returned
  loaded,         \* exception tables of the returned tokenizers, one per call
  tk,             \* entries of special_cases the returned tokenizer has been tried on
  text,           \* text last given to the returned tokenizer
  tokens,         \* token texts the tokenizer produced for text
  rgx,            \* what build_token_match_rgx returned to a direct caller
  probe,          \* string last given to a direct token_match / prefix_re call
  tm_out,         \* result of that token_match call
  pre_end         \* end offset of that prefix_re match, -1 when there is none

tokvars == <<special_cases, order, tpc, idx, rules, visited, calls, loaded, tk, text,
             tokens, rgx, probe, tm_out, pre_end>>

VARIABLES
  cfg,            \* tune_eval.py: what train_config and fsdp_config hold of the arguments
  pc,             \* position of each process in main / train / eval_callback
  stages,         \* per process: the stages and callback steps it has completed, in order
  epoch,          \* per process: the epoch train is at
  best_accuracy,  \* per process: main's best_accuracy
  best_epoch,     \* per process: main's best_epoch
  all_results,    \* per process: main's all_results
  eval_results,   \* per process: what evaluate_model returned last
  bar,            \* per process: barriers entered
  err,            \* per process: the exception that ended it, "" for none
  ckpt,           \* output_dir/model_epoch_<e>, per epoch: "absent", "partial", "complete"
  best_dir,       \* output_dir/best_model
  perf_file,      \* output_dir/best_model/performance_results.txt as this run wrote it
  evals,          \* per epoch: the accuracies its checkpoint evaluates to, once known
  wandb_run,      \* per process: TRUE for the run setup_wandb returned, FALSE for None
  wandb_uses      \* per process: the attributes of wandb_run it has accessed

tunevars == <<cfg, pc, stages, epoch, best_accuracy, best_epoch, all_results,
              eval_results, bar, err, ckpt, best_dir, perf_file, evals,
              wandb_run, wandb_uses>>

vars == <<tokvars, tunevars>>

\* Number of ct_tokenizer calls a run makes.
MaxCalls == 2

\* Longest string given directly to prefix_re.
MaxProbeLen == 3

\* Number of processes of a run with FSDP (WORLD_SIZE).
NumRanks == 2

\* Largest train_config.num_epochs.
MaxEpochs == 2

\* Accuracies are the levels 0..MaxAcc (0 is the accuracy 0.0).
MaxAcc == 1

(***************************************************************************)
(* Characters                                                              *)
(***************************************************************************)

\* The printable ASCII characters in code order, from code 32 to code 126
\* (code 96, the grave accent, is written "grave").
ASCII ==
  <<" ", "!", "\"", "#", "$", "%", "&", "'", "(", ")", "*", "+", ",", "-", ".", "/",
    "0", "1", "2", "3", "4", "5", "6", "7", "8", "9", ":", ";", "<", "=", ">", "?",
    "@", "A", "B", "C", "D", "E", "F", "G", "H", "I", "J", "K", "L", "M", "N", "O",
    "P", "Q", "R", "S", "T", "U", "V", "W", "X", "Y", "Z", "[", "\\", "]", "^", "_",
    "grave", "a", "b", "c", "d", "e", "f", "g", "h", "i", "j", "k", "l", "m", "n", "o",
    "p", "q", "r", "s", "t", "u", "v", "w", "x", "y", "z", "{", "|", "}", "~">>

\* Code point of a character.
Ord(c) == 31 + (CHOOSE i \in 1..Len(ASCII) : ASCII[i] = c)

\* The characters of a character-class range lo-hi.
Range(lo, hi) == {ASCII[n - 31] : n \in Ord(lo)..Ord(hi)}

Digits == Range("0", "9")
Upper == Range("A", "Z")
Lower == Range("a", "z")
Letters == Upper \cup Lower
\* \w of the re module, on ASCII
WordChars == Letters \cup Digits \cup {"_"}
\* what str.split() and str.isspace() treat as whitespace, on printable ASCII
Whitespace == {" "}

(***************************************************************************)
(* Regular expressions of the re module, as syntax trees                   *)
(***************************************************************************)

Cls(S) == [k |-> "cls", set |-> S]
Cat(rs) == [k |-> "cat", rs |-> rs]
Alt(rs) == [k |-> "alt", rs |-> rs]
\* r{lo,hi}; hi = -1 for no upper limit
Rep(r, lo, hi) == [k |-> "rep", r |-> r, lo |-> lo, hi |-> hi]
Plus(r) == Rep(r, 1, -1)
Star(r) == Rep(r, 0, -1)
Opt(r) == Rep(r, 0, 1)
Bol == [k |-> "bol"]
Eol == [k |-> "eol"]
Wb == [k |-> "wb"]
Ch(c) == Cls({c})
Lit(s) == Cat([i \in 1..Len(s) |-> Ch(s[i])])

IsWordAt(s, i) == i >= 1 /\ i <= Len(s) /\ s[i] \in WordChars

RECURSIVE Ends(_, _, _), CatEnds(_, _, _, _), RepEnds(_, _, _, _, _, _)

\* The offsets at which a match of r that starts at offset i of s can end.
Ends(r, s, i) ==
  CASE r.k = "cls" -> IF i < Len(s) /\ s[i + 1] \in r.set THEN {i + 1} ELSE {}
    [] r.k = "bol" -> IF i = 0 THEN {i} ELSE {}
    [] r.k = "eol" -> IF i = Len(s) THEN {i} ELSE {}
    [] r.k = "wb"  -> IF IsWordAt(s, i) # IsWordAt(s, i + 1) THEN {i} ELSE {}
    [] r.k = "cat" -> CatEnds(r.rs, 1, s, {i})
    [] r.k = "alt" -> UNION {Ends(r.rs[n], s, i) : n \in 1..Len(r.rs)}
    [] r.k = "rep" -> RepEnds(r.r, s, {i}, 0, r.lo, r.hi)

CatEnds(rs, n, s, P) ==
  IF n > Len(rs) THEN P
  ELSE CatEnds(rs, n + 1, s, UNION {Ends(rs[n], s, p) : p \in P})

\* P: the offsets reached after exactly n repetitions
RepEnds(r, s, P, n, lo, hi) ==
  LET here == IF n >= lo THEN P ELSE {}
  IN IF P = {} \/ n = hi \/ n > Len(s) + lo THEN here
     ELSE here \cup RepEnds(r, s, UNION {Ends(r, s, p) : p \in P}, n + 1, lo, hi)

\* pattern.search(s) finds a match
Search(r, s) == \E i \in 0..Len(s) : Ends(r, s, i) # {}

SetMax(S) == CHOOSE x \in S : \A y \in S : y <= x
SetMin(S) == CHOOSE x \in S : \A y \in S : x <= y

\* pattern.search(s).start(): the leftmost offset at which a match starts
SearchStart(r, s) == SetMin({i \in 0..Len(s) : Ends(r, s, i) # {}})

\* s[a:b] of Python, 0 <= a <= b <= len(s)
Slice(s, a, b) == SubSeq(s, a + 1, b)

\* tokenizer.py lines 18-117
special_cases_01 ==
  <<
    <<"A.A.A.", <<[ORTH |-> "A.A.A."]>>>>,
    <<"A.A.A.S.", <<[ORTH |-> "A.A.A.S."]>>>>,
    <<"A.A.B.B.", <<[ORTH |-> "A.A.B.B."]>>>>,
    <<"A.A.C.P.", <<[ORTH |-> "A.A.C.P."]>>>>,
    <<"A.A.D.", <<[ORTH |-> "A.A.D."]>>>>,
    <<"A.A.D.P.", <<[ORTH |-> "A.A.D.P."]>>>>,
    <<"A.A.D.R.", <<[ORTH |-> "A.A.D.R."]>>>>,
    <<"A.A.D.S.", <<[ORTH |-> "A.A.D.S."]>>>>,
    <<"A.A.E.", <<[ORTH |-> "A.A.E."]>>>>,
    <<"A.A.F.P.", <<[ORTH |-> "A.A.F.P."]>>>>,
    <<"A.A.G.P.", <<[ORTH |-> "A.A.G.P."]>>>>,
    <<"A.A.I.", <<[ORTH |-> "A.A.I."]>>>>,
    <<"A.A.I.D.", <<[ORTH |-> "A.A.I.D."]>>>>,
    <<"A.A.I.N.", <<[ORTH |-> "A.A.I.N."]>>>>,
    <<"A.A.M.A.", <<[ORTH |-> "A.A.M.A."]>>>>,
    <<"A.A.M.C.", <<[ORTH |-> "A.A.M.C."]>>>>,
    <<"A.A.M.D.", <<[ORTH |-> "A.A.M.D."]>>>>,
    <<"A.A.M.R.L.", <<[ORTH |-> "A.A.M.R.L."]>>>>,
    <<"A.A.O.", <<[ORTH |-> "A.A.O."]>>>>,
    <<"A.A.O.P.", <<[ORTH |-> "A.A.O.P."]>>>>,
    <<"A.A.P.", <<[ORTH |-> "A.A.P."]>>>>,
    <<"A.A.P.A.", <<[ORTH |-> "A.A.P.A."]>>>>,
    <<"A.A.P.B.", <<[ORTH |-> "A.A.P.B."]>>>>,
    <<"A.A.P.M.R.", <<[ORTH |-> "A.A.P.M.R."]>>>>,
    <<"A.A.P.S.", <<[ORTH |-> "A.A.P.S."]>>>>,
    <<"A.B.E.P.P.", <<[ORTH |-> "A.B.E.P.P."]>>>>,
    <<"A.C.", <<[ORTH |-> "A.C."]>>>>,
    <<"A.C.A.", <<[ORTH |-> "A.C.A."]>>>>,
    <<"A.C.G.", <<[ORTH |-> "A.C.G."]>>>>,
    <<"A.C.H.A.", <<[ORTH |-> "A.C.H.A."]>>>>,
    <<"A.C.N.M.", <<[ORTH |-> "A.C.N.M."]>>>>,
    <<"A.C.O.G.", <<[ORTH |-> "A.C.O.G."]>>>>,
    <<"A.C.O.H.A.", <<[ORTH |-> "A.C.O.H.A."]>>>>,
    <<"A.C.O.O.G.", <<[ORTH |-> "A.C.O.O.G."]>>>>,
    <<"A.C.O.S.", <<[ORTH |-> "A.C.O.S."]>>>>,
    <<"A.C.P.", <<[ORTH |-> "A.C.P."]>>>>,
    <<"A.C.R.", <<[ORTH |-> "A.C.R."]>>>>,
    <<"A.C.S.", <<[ORTH |-> "A.C.S."]>>>>,
    <<"A.C.S.M.", <<[ORTH |-> "A.C.S.M."]>>>>,
    <<"A.D.", <<[ORTH |-> "A.D."]>>>>,
    <<"A.D.A.", <<[ORTH |-> "A.D.A."]>>>>,
    <<"A.E.", <<[ORTH |-> "A.E."]>>>>,
    <<"A.E.S.", <<[ORTH |-> "A.E.S."]>>>>,
    <<"A.G.A.", <<[ORTH |-> "A.G.A."]>>>>,
    <<"A.G.S.", <<[ORTH |-> "A.G.S."]>>>>,
    <<"A.H.A.", <<[ORTH |-> "A.H.A."]>>>>,
    <<"A.H.P.", <<[ORTH |-> "A.H.P."]>>>>,
    <<"A.H.S.", <<[ORTH |-> "A.H.S."]>>>>,
    <<"A.I.", <<[ORTH |-> "A.I."]>>>>,
    <<"A.I.C.", <<[ORTH |-> "A.I.C."]>>>>,
    <<"A.I.H.", <<[ORTH |-> "A.I.H."]>>>>,
    <<"A.I.H.A.", <<[ORTH |-> "A.I.H.A."]>>>>,
    <<"A.L.A.", <<[ORTH |-> "A.L.A."]>>>>,
    <<"A.L.R.O.S.", <<[ORTH |-> "A.L.R.O.S."]>>>>,
    <<"A.M.", <<[ORTH |-> "A.M."]>>>>,
    <<"A.M.A.", <<[ORTH |-> "A.M.A."]>>>>,
    <<"A.M.R.L.", <<[ORTH |-> "A.M.R.L."]>>>>,
    <<"A.M.S.", <<[ORTH |-> "A.M.S."]>>>>,
    <<"A.M.S.A.", <<[ORTH |-> "A.M.S.A."]>>>>,
    <<"A.M.W.A.", <<[ORTH |-> "A.M.W.A."]>>>>,
    <<"A.N.A.", <<[ORTH |-> "A.N.A."]>>>>,
    <<"A.O.A.", <<[ORTH |-> "A.O.A."]>>>>,
    <<"A.O.P.A.", <<[ORTH |-> "A.O.P.A."]>>>>,
    <<"A.O.S.", <<[ORTH |-> "A.O.S."]>>>>,
    <<"A.O.T.A.", <<[ORTH |-> "A.O.T.A."]>>>>,
    <<"A.P.A.", <<[ORTH |-> "A.P.A."]>>>>,
    <<"A.P.H.A.", <<[ORTH |-> "A.P.H.A."]>>>>,
    <<"A.P.M.", <<[ORTH |-> "A.P.M."]>>>>,
    <<"A.P.S.", <<[ORTH |-> "A.P.S."]>>>>,
    <<"A.P.T.A.", <<[ORTH |-> "A.P.T.A."]>>>>,
    <<"A.Ph.A.", <<[ORTH |-> "A.Ph.A."]>>>>,
    <<"A.R.C.", <<[ORTH |-> "A.R.C."]>>>>,
    <<"A.R.M.H.", <<[ORTH |-> "A.R.M.H."]>>>>,
    <<"A.R.N.M.D.", <<[ORTH |-> "A.R.N.M.D."]>>>>,
    <<"A.R.O.", <<[ORTH |-> "A.R.O."]>>>>,
    <<"A.R.R.S.", <<[ORTH |-> "A.R.R.S."]>>>>,
    <<"A.R.S.", <<[ORTH |-> "A.R.S."]>>>>,
    <<"A.R.T.", <<[ORTH |-> "A.R.T."]>>>>,
    <<"A.S.A.I.O.", <<[ORTH |-> "A.S.A.I.O."]>>>>,
    <<"A.S.B.", <<[ORTH |-> "A.S.B."]>>>>,
    <<"A.S.C.H.", <<[ORTH |-> "A.S.C.H."]>>>>,
    <<"A.S.C.I.", <<[ORTH |-> "A.S.C.I."]>>>>,
    <<"A.S.C.L.T.", <<[ORTH |-> "A.S.C.L.T."]>>>>,
    <<"A.S.C.P.", <<[ORTH |-> "A.S.C.P."]>>>>,
    <<"A.S.G.", <<[ORTH |-> "A.S.G."]>>>>,
    <<"A.S.H.", <<[ORTH |-> "A.S.H."]>>>>,
    <<"A.S.H.A.", <<[ORTH |-> "A.S.H.A."]>>>>,
    <<"A.S.H.I.", <<[ORTH |-> "A.S.H.I."]>>>>,
    <<"A.S.H.P.", <<[ORTH |-> "A.S.H.P."]>>>>,
    <<"A.S.I.I.", <<[ORTH |-> "A.S.I.I."]>>>>,
    <<"A.S.I.M.", <<[ORTH |-> "A.S.I.M."]>>>>,
    <<"A.S.M.", <<[ORTH |-> "A.S.M."]>>>>,
    <<"A.S.P.", <<[ORTH |-> "A.S.P."]>>>>,
    <<"A.S.R.T.", <<[ORTH |-> "A.S.R.T."]>>>>,
    <<"A.S.T.M.H.", <<[ORTH |-> "A.S.T.M.H."]>>>>,
    <<"A.U.", <<[ORTH |-> "A.U."]>>>>,
    <<"Act.", <<[ORTH |-> "Act."]>>>>,
    <<"Alta.", <<[ORTH |-> "Alta."]>>>>,
    <<"Anat.", <<[ORTH |-> "Anat."]>>>>,
    <<"Apr.", <<[ORTH |-> "Apr."]>>>>
  >>

\* tokenizer.py lines 118-217
special_cases_02 ==
  <<
    <<"Aq.", <<[ORTH |-> "Aq."]>>>>,
    <<"As.M.", <<[ORTH |-> "As.M."]>>>>,
    <<"Au.D.", <<[ORTH |-> "Au.D."]>>>>,
    <<"Aug.", <<[ORTH |-> "Aug."]>>>>,
    <<"B.A.", <<[ORTH |-> "B.A."]>>>>,
    <<"B.B.B.", <<[ORTH |-> "B.B.B."]>>>>,
    <<"B.D.A.", <<[ORTH |-> "B.D.A."]>>>>,
    <<"B.D.S.", <<[ORTH |-> "B.D.S."]>>>>,
    <<"B.D.Sc.", <<[ORTH |-> "B.D.Sc."]>>>>,
    <<"B.F.A.", <<[ORTH |-> "B.F.A."]>>>>,
    <<"B.L.R.O.A.", <<[ORTH |-> "B.L.R.O.A."]>>>>,
    <<"B.M.", <<[ORTH |-> "B.M."]>>>>,
    <<"B.M.A.", <<[ORTH |-> "B.M.A."]>>>>,
    <<"B.M.S.", <<[ORTH |-> "B.M.S."]>>>>,
    <<"B.O.A.", <<[ORTH |-> "B.O.A."]>>>>,
    <<"B.P.", <<[ORTH |-> "B.P."]>>>>,
    <<"B.P.A.", <<[ORTH |-> "B.P.A."]>>>>,
    <<"B.P.H.", <<[ORTH |-> "B.P.H."]>>>>,
    <<"B.R.S.", <<[ORTH |-> "B.R.S."]>>>>,
    <<"B.S.", <<[ORTH |-> "B.S."]>>>>,
    <<"B.S.N.", <<[ORTH |-> "B.S.N."]>>>>,
    <<"B.T.U.", <<[ORTH |-> "B.T.U."]>>>>,
    <<"Bact.", <<[ORTH |-> "Bact."]>>>>,
    <<"Blvd.", <<[ORTH |-> "Blvd."]>>>>,
    <<"Bull.", <<[ORTH |-> "Bull."]>>>>,
    <<"C.", <<[ORTH |-> "C."]>>>>,
    <<"C.A.P.", <<[ORTH |-> "C.A.P."]>>>>,
    <<"C.D.", <<[ORTH |-> "C.D."]>>>>,
    <<"C.H.A.", <<[ORTH |-> "C.H.A."]>>>>,
    <<"C.I.H.", <<[ORTH |-> "C.I.H."]>>>>,
    <<"C.I.N.P.", <<[ORTH |-> "C.I.N.P."]>>>>,
    <<"C.I.O.M.S.", <<[ORTH |-> "C.I.O.M.S."]>>>>,
    <<"C.M.A.", <<[ORTH |-> "C.M.A."]>>>>,
    <<"C.N.A.", <<[ORTH |-> "C.N.A."]>>>>,
    <<"C.N.M.", <<[ORTH |-> "C.N.M."]>>>>,
    <<"C.O.A.", <<[ORTH |-> "C.O.A."]>>>>,
    <<"C.O.S.", <<[ORTH |-> "C.O.S."]>>>>,
    <<"C.P.H.", <<[ORTH |-> "C.P.H."]>>>>,
    <<"C.R.N.A.", <<[ORTH |-> "C.R.N.A."]>>>>,
    <<"C.R.N.P.", <<[ORTH |-> "C.R.N.P."]>>>>,
    <<"C.S.A.A.", <<[ORTH |-> "C.S.A.A."]>>>>,
    <<"C.S.G.B.I.", <<[ORTH |-> "C.S.G.B.I."]>>>>,
    <<"C.T.A.", <<[ORTH |-> "C.T.A."]>>>>,
    <<"Cel.", <<[ORTH |-> "Cel."]>>>>,
    <<"Ch.", <<[ORTH |-> "Ch."]>>>>,
    <<"Colo.", <<[ORTH |-> "Colo."]>>>>,
    <<"Conn.", <<[ORTH |-> "Conn."]>>>>,
    <<"Cx.", <<[ORTH |-> "Cx."]>>>>,
    <<"D.", <<[ORTH |-> "D."]>>>>,
    <<"D.A.", <<[ORTH |-> "D.A."]>>>>,
    <<"D.A.H.", <<[ORTH |-> "D.A.H."]>>>>,
    <<"D.C.", <<[ORTH |-> "D.C."]>>>>,
    <<"D.C.F.", <<[ORTH |-> "D.C.F."]>>>>,
    <<"D.C.H.", <<[ORTH |-> "D.C.H."]>>>>,
    <<"D.C.O.G.", <<[ORTH |-> "D.C.O.G."]>>>>,
    <<"D.D.S.", <<[ORTH |-> "D.D.S."]>>>>,
    <<"D.D.Sc.", <<[ORTH |-> "D.D.Sc."]>>>>,
    <<"D.Hg.", <<[ORTH |-> "D.Hg."]>>>>,
    <<"D.Hy.", <<[ORTH |-> "D.Hy."]>>>>,
    <<"D.J.", <<[ORTH |-> "D.J."]>>>>,
    <<"D.M.R.D.", <<[ORTH |-> "D.M.R.D."]>>>>,
    <<"D.M.R.T.", <<[ORTH |-> "D.M.R.T."]>>>>,
    <<"D.O.", <<[ORTH |-> "D.O."]>>>>,
    <<"D.O.A.", <<[ORTH |-> "D.O.A."]>>>>,
    <<"D.P.", <<[ORTH |-> "D.P."]>>>>,
    <<"D.P.H.", <<[ORTH |-> "D.P.H."]>>>>,
    <<"D.P.M.", <<[ORTH |-> "D.P.M."]>>>>,
    <<"D.S.C.", <<[ORTH |-> "D.S.C."]>>>>,
    <<"D.T.P.", <<[ORTH |-> "D.T.P."]>>>>,
    <<"D.W.", <<[ORTH |-> "D.W."]>>>>,
    <<"Dec.", <<[ORTH |-> "Dec."]>>>>,
    <<"Deg.", <<[ORTH |-> "Deg."]>>>>,
    <<"Det.", <<[ORTH |-> "Det."]>>>>,
    <<"Dn.", <<[ORTH |-> "Dn."]>>>>,
    <<"Dr.", <<[ORTH |-> "Dr."]>>>>,
    <<"Dr.P.H.", <<[ORTH |-> "Dr.P.H."]>>>>,
    <<"E.F.", <<[ORTH |-> "E.F."]>>>>,
    <<"E.M.S.", <<[ORTH |-> "E.M.S."]>>>>,
    <<"E.R.A.", <<[ORTH |-> "E.R.A."]>>>>,
    <<"Eur.", <<[ORTH |-> "Eur."]>>>>,
    <<"Extr.", <<[ORTH |-> "Extr."]>>>>,
    <<"F.", <<[ORTH |-> "F."]>>>>,
    <<"F.A.C.D.", <<[ORTH |-> "F.A.C.D."]>>>>,
    <<"F.A.C.O.G.", <<[ORTH |-> "F.A.C.O.G."]>>>>,
    <<"F.A.C.O.I.", <<[ORTH |-> "F.A.C.O.I."]>>>>,
    <<"F.A.C.P.", <<[ORTH |-> "F.A.C.P."]>>>>,
    <<"F.A.C.S.", <<[ORTH |-> "F.A.C.S."]>>>>,
    <<"F.A.C.S.M.", <<[ORTH |-> "F.A.C.S.M."]>>>>,
    <<"F.A.M.A.", <<[ORTH |-> "F.A.M.A."]>>>>,
    <<"F.A.P.H.A.", <<[ORTH |-> "F.A.P.H.A."]>>>>,
    <<"F.B.", <<[ORTH |-> "F.B."]>>>>,
    <<"F.I.C.D.", <<[ORTH |-> "F.I.C.D."]>>>>,
    <<"F.I.C.S.", <<[ORTH |-> "F.I.C.S."]>>>>,
    <<"F.L.T.", <<[ORTH |-> "F.L.T."]>>>>,
    <<"F.R.C.P.", <<[ORTH |-> "F.R.C.P."]>>>>,
    <<"F.R.C.P.C.", <<[ORTH |-> "F.R.C.P.C."]>>>>,
    <<"F.R.C.P.E.", <<[ORTH |-> "F.R.C.P.E."]>>>>,
    <<"F.R.C.P.I.", <<[ORTH |-> "F.R.C.P.I."]>>>>,
    <<"F.R.C.S.", <<[ORTH |-> "F.R.C.S."]>>>>,
    <<"F.R.C.S.E.", <<[ORTH |-> "F.R.C.S.E."]>>>>
  >>

\* tokenizer.py lines 218-317
special_cases_03 ==
  <<
    <<"F.R.C.S.I.", <<[ORTH |-> "F.R.C.S.I."]>>>>,
    <<"F.R.C.V.S.", <<[ORTH |-> "F.R.C.V.S."]>>>>,
    <<"F.R.F.P.S.G.", <<[ORTH |-> "F.R.F.P.S.G."]>>>>,
    <<"F.U.O.", <<[ORTH |-> "F.U.O."]>>>>,
    <<"F.h.", <<[ORTH |-> "F.h."]>>>>,
    <<"F.p.", <<[ORTH |-> "F.p."]>>>>,
    <<"Feb.", <<[ORTH |-> "Feb."]>>>>,
    <<"Fri.", <<[ORTH |-> "Fri."]>>>>,
    <<"G.M.C.", <<[ORTH |-> "G.M.C."]>>>>,
    <<"Galv.", <<[ORTH |-> "Galv."]>>>>,
    <<"Gr.", <<[ORTH |-> "Gr."]>>>>,
    <<"Grad.", <<[ORTH |-> "Grad."]>>>>,
    <<"H.C.", <<[ORTH |-> "H.C."]>>>>,
    <<"H.d.", <<[ORTH |-> "H.d."]>>>>,
    <<"HOO.", <<[ORTH |-> "HOO."]>>>>,
    <<"I.A.G.P.", <<[ORTH |-> "I.A.G.P."]>>>>,
    <<"I.A.G.U.S.", <<[ORTH |-> "I.A.G.U.S."]>>>>,
    <<"I.A.M.M.", <<[ORTH |-> "I.A.M.M."]>>>>,
    <<"I.A.P.B.", <<[ORTH |-> "I.A.P.B."]>>>>,
    <<"I.A.P.P.", <<[ORTH |-> "I.A.P.P."]>>>>,
    <<"I.C.N.", <<[ORTH |-> "I.C.N."]>>>>,
    <<"I.C.R.P.", <<[ORTH |-> "I.C.R.P."]>>>>,
    <<"I.C.R.U.", <<[ORTH |-> "I.C.R.U."]>>>>,
    <<"I.C.S.", <<[ORTH |-> "I.C.S."]>>>>,
    <<"I.C.U.", <<[ORTH |-> "I.C.U."]>>>>,
    <<"I.E.", <<[ORTH |-> "I.E."]>>>>,
    <<"I.H.", <<[ORTH |-> "I.H."]>>>>,
    <<"I.L.A.", <<[ORTH |-> "I.L.A."]>>>>,
    <<"I.M.", <<[ORTH |-> "I.M."]>>>>,
    <<"I.M.A.", <<[ORTH |-> "I.M.A."]>>>>,
    <<"I.M.V.", <<[ORTH |-> "I.M.V."]>>>>,
    <<"I.N.A.", <<[ORTH |-> "I.N.A."]>>>>,
    <<"I.P.A.A.", <<[ORTH |-> "I.P.A.A."]>>>>,
    <<"I.Q.", <<[ORTH |-> "I.Q."]>>>>,
    <<"I.R.I.S.", <<[ORTH |-> "I.R.I.S."]>>>>,
    <<"I.S.A.", <<[ORTH |-> "I.S.A."]>>>>,
    <<"I.S.C.P.", <<[ORTH |-> "I.S.C.P."]>>>>,
    <<"I.S.G.E.", <<[ORTH |-> "I.S.G.E."]>>>>,
    <<"I.S.H.", <<[ORTH |-> "I.S.H."]>>>>,
    <<"I.S.M.", <<[ORTH |-> "I.S.M."]>>>>,
    <<"I.S.O.", <<[ORTH |-> "I.S.O."]>>>>,
    <<"I.S.U.", <<[ORTH |-> "I.S.U."]>>>>,
    <<"I.T.A.", <<[ORTH |-> "I.T.A."]>>>>,
    <<"I.U.", <<[ORTH |-> "I.U."]>>>>,
    <<"I.V.", <<[ORTH |-> "I.V."]>>>>,
    <<"Inpt.", <<[ORTH |-> "Inpt."]>>>>,
    <<"Jan.", <<[ORTH |-> "Jan."]>>>>,
    <<"Jap.", <<[ORTH |-> "Jap."]>>>>,
    <<"K.A.U.", <<[ORTH |-> "K.A.U."]>>>>,
    <<"K.U.B.", <<[ORTH |-> "K.U.B."]>>>>,
    <<"L.", <<[ORTH |-> "L."]>>>>,
    <<"L.A.O.", <<[ORTH |-> "L.A.O."]>>>>,
    <<"L.Ch.", <<[ORTH |-> "L.Ch."]>>>>,
    <<"L.D.A.", <<[ORTH |-> "L.D.A."]>>>>,
    <<"L.D.S.", <<[ORTH |-> "L.D.S."]>>>>,
    <<"L.K.Q.C.P.I.", <<[ORTH |-> "L.K.Q.C.P.I."]>>>>,
    <<"L.M.", <<[ORTH |-> "L.M."]>>>>,
    <<"L.M.R.C.P.", <<[ORTH |-> "L.M.R.C.P."]>>>>,
    <<"L.M.S.", <<[ORTH |-> "L.M.S."]>>>>,
    <<"L.M.S.S.A.", <<[ORTH |-> "L.M.S.S.A."]>>>>,
    <<"L.P.N.", <<[ORTH |-> "L.P.N."]>>>>,
    <<"L.R.C.P.", <<[ORTH |-> "L.R.C.P."]>>>>,
    <<"L.R.C.S.", <<[ORTH |-> "L.R.C.S."]>>>>,
    <<"L.R.C.S.E.", <<[ORTH |-> "L.R.C.S.E."]>>>>,
    <<"L.S.A.", <<[ORTH |-> "L.S.A."]>>>>,
    <<"L.V.H.", <<[ORTH |-> "L.V.H."]>>>>,
    <<"L.V.N.", <<[ORTH |-> "L.V.N."]>>>>,
    <<"La.", <<[ORTH |-> "La."]>>>>,
    <<"Lact.", <<[ORTH |-> "Lact."]>>>>,
    <<"Lic.", <<[ORTH |-> "Lic."]>>>>,
    <<"Linn.", <<[ORTH |-> "Linn."]>>>>,
    <<"Lond.", <<[ORTH |-> "Lond."]>>>>,
    <<"M.A.", <<[ORTH |-> "M.A."]>>>>,
    <<"M.A.B.", <<[ORTH |-> "M.A.B."]>>>>,
    <<"M.A.C.", <<[ORTH |-> "M.A.C."]>>>>,
    <<"M.B.", <<[ORTH |-> "M.B."]>>>>,
    <<"M.C.", <<[ORTH |-> "M.C."]>>>>,
    <<"M.C.S.P.", <<[ORTH |-> "M.C.S.P."]>>>>,
    <<"M.D.", <<[ORTH |-> "M.D."]>>>>,
    <<"M.D.A.", <<[ORTH |-> "M.D.A."]>>>>,
    <<"M.E.D.", <<[ORTH |-> "M.E.D."]>>>>,
    <<"M.I.", <<[ORTH |-> "M.I."]>>>>,
    <<"M.I.N.I.", <<[ORTH |-> "M.I.N.I."]>>>>,
    <<"M.I.T.", <<[ORTH |-> "M.I.T."]>>>>,
    <<"M.L.", <<[ORTH |-> "M.L."]>>>>,
    <<"M.O.", <<[ORTH |-> "M.O."]>>>>,
    <<"M.O.H.", <<[ORTH |-> "M.O.H."]>>>>,
    <<"M.O.R.C.", <<[ORTH |-> "M.O.R.C."]>>>>,
    <<"M.P.H.", <<[ORTH |-> "M.P.H."]>>>>,
    <<"M.P.U.", <<[ORTH |-> "M.P.U."]>>>>,
    <<"M.R.A.", <<[ORTH |-> "M.R.A."]>>>>,
    <<"M.R.A.C.P.", <<[ORTH |-> "M.R.A.C.P."]>>>>,
    <<"M.R.C.", <<[ORTH |-> "M.R.C."]>>>>,
    <<"M.R.C.P.", <<[ORTH |-> "M.R.C.P."]>>>>,
    <<"M.R.C.P.E.", <<[ORTH |-> "M.R.C.P.E."]>>>>,
    <<"M.R.C.P.I.", <<[ORTH |-> "M.R.C.P.I."]>>>>,
    <<"M.R.C.S.", <<[ORTH |-> "M.R.C.S."]>>>>,
    <<"M.R.C.S.E.", <<[ORTH |-> "M.R.C.S.E."]>>>>,
    <<"M.R.C.S.I.", <<[ORTH |-> "M.R.C.S.I."]>>>>,
    <<"M.R.C.V.S.", <<[ORTH |-> "M.R.C.V.S."]>>>>
  >>

\* tokenizer.py lines 318-417
special_cases_04 ==
  <<
    <<"M.R.L.", <<[ORTH |-> "M.R.L."]>>>>,
    <<"M.S.", <<[ORTH |-> "M.S."]>>>>,
    <<"M.S.N.", <<[ORTH |-> "M.S.N."]>>>>,
    <<"M.T.", <<[ORTH |-> "M.T."]>>>>,
    <<"M.V.I.", <<[ORTH |-> "M.V.I."]>>>>,
    <<"M.u.", <<[ORTH |-> "M.u."]>>>>,
    <<"MSEd.", <<[ORTH |-> "MSEd."]>>>>,
    <<"Md.", <<[ORTH |-> "Md."]>>>>,
    <<"Merr.", <<[ORTH |-> "Merr."]>>>>,
    <<"Mich.", <<[ORTH |-> "Mich."]>>>>,
    <<"Mme.", <<[ORTH |-> "Mme."]>>>>,
    <<"Mr.", <<[ORTH |-> "Mr."]>>>>,
    <<"Mrs.", <<[ORTH |-> "Mrs."]>>>>,
    <<"Ms.", <<[ORTH |-> "Ms."]>>>>,
    <<"N.", <<[ORTH |-> "N."]>>>>,
    <<"N.A.P.N.E.S.", <<[ORTH |-> "N.A.P.N.E.S."]>>>>,
    <<"N.A.S.E.", <<[ORTH |-> "N.A.S.E."]>>>>,
    <<"N.B.S.", <<[ORTH |-> "N.B.S."]>>>>,
    <<"N.C.", <<[ORTH |-> "N.C."]>>>>,
    <<"N.C.M.H.", <<[ORTH |-> "N.C.M.H."]>>>>,
    <<"N.C.N.", <<[ORTH |-> "N.C.N."]>>>>,
    <<"N.D.A.", <<[ORTH |-> "N.D.A."]>>>>,
    <<"N.E.M.A.", <<[ORTH |-> "N.E.M.A."]>>>>,
    <<"N.F.L.P.N.", <<[ORTH |-> "N.F.L.P.N."]>>>>,
    <<"N.H.C.", <<[ORTH |-> "N.H.C."]>>>>,
    <<"N.H.I.", <<[ORTH |-> "N.H.I."]>>>>,
    <<"N.H.L.I.", <<[ORTH |-> "N.H.L.I."]>>>>,
    <<"N.H.M.R.C.", <<[ORTH |-> "N.H.M.R.C."]>>>>,
    <<"N.H.S.", <<[ORTH |-> "N.H.S."]>>>>,
    <<"N.L.N.", <<[ORTH |-> "N.L.N."]>>>>,
    <<"N.M.A.", <<[ORTH |-> "N.M.A."]>>>>,
    <<"N.M.S.S.", <<[ORTH |-> "N.M.S.S."]>>>>,
    <<"N.O.A.", <<[ORTH |-> "N.O.A."]>>>>,
    <<"N.O.P.H.N.", <<[ORTH |-> "N.O.P.H.N."]>>>>,
    <<"N.O.T.B.", <<[ORTH |-> "N.O.T.B."]>>>>,
    <<"N.P.A.", <<[ORTH |-> "N.P.A."]>>>>,
    <<"N.R.C.", <<[ORTH |-> "N.R.C."]>>>>,
    <<"N.S.A.", <<[ORTH |-> "N.S.A."]>>>>,
    <<"N.S.C.C.", <<[ORTH |-> "N.S.C.C."]>>>>,
    <<"N.S.N.A.", <<[ORTH |-> "N.S.N.A."]>>>>,
    <<"N.S.P.B.", <<[ORTH |-> "N.S.P.B."]>>>>,
    <<"N.T.A.", <<[ORTH |-> "N.T.A."]>>>>,
    <<"N.T.P.", <<[ORTH |-> "N.T.P."]>>>>,
    <<"N.Y.", <<[ORTH |-> "N.Y."]>>>>,
    <<"N.Y.D.", <<[ORTH |-> "N.Y.D."]>>>>,
    <<"Nev.", <<[ORTH |-> "Nev."]>>>>,
    <<"Nm.", <<[ORTH |-> "Nm."]>>>>,
    <<"Nov.", <<[ORTH |-> "Nov."]>>>>,
    <<"Num.", <<[ORTH |-> "Num."]>>>>,
    <<"O.D.", <<[ORTH |-> "O.D."]>>>>,
    <<"O.K.", <<[ORTH |-> "O.K."]>>>>,
    <<"O.R.", <<[ORTH |-> "O.R."]>>>>,
    <<"O.R.E.F.", <<[ORTH |-> "O.R.E.F."]>>>>,
    <<"O.R.S.", <<[ORTH |-> "O.R.S."]>>>>,
    <<"O.S.A.", <<[ORTH |-> "O.S.A."]>>>>,
    <<"O.S.U.K.", <<[ORTH |-> "O.S.U.K."]>>>>,
    <<"O.U.", <<[ORTH |-> "O.U."]>>>>,
    <<"Ob.", <<[ORTH |-> "Ob."]>>>>,
    <<"Oct.", <<[ORTH |-> "Oct."]>>>>,
    <<"Oe.", <<[ORTH |-> "Oe."]>>>>,
    <<"Ont.", <<[ORTH |-> "Ont."]>>>>,
    <<"Ore.", <<[ORTH |-> "Ore."]>>>>,
    <<"Outpt.", <<[ORTH |-> "Outpt."]>>>>,
    <<"P-barb.", <<[ORTH |-> "P-barb."]>>>>,
    <<"P.C.M.O.", <<[ORTH |-> "P.C.M.O."]>>>>,
    <<"P.H.L.S.", <<[ORTH |-> "P.H.L.S."]>>>>,
    <<"P.M.B.", <<[ORTH |-> "P.M.B."]>>>>,
    <<"P.M.E.", <<[ORTH |-> "P.M.E."]>>>>,
    <<"P.O.", <<[ORTH |-> "P.O."]>>>>,
    <<"P.P.D.", <<[ORTH |-> "P.P.D."]>>>>,
    <<"P.T.", <<[ORTH |-> "P.T."]>>>>,
    <<"P.T.U.", <<[ORTH |-> "P.T.U."]>>>>,
    <<"Ph.", <<[ORTH |-> "Ph."]>>>>,
    <<"Ph.B.", <<[ORTH |-> "Ph.B."]>>>>,
    <<"Ph.D.", <<[ORTH |-> "Ph.D."]>>>>,
    <<"Ph.G.", <<[ORTH |-> "Ph.G."]>>>>,
    <<"PhD.", <<[ORTH |-> "PhD."]>>>>,
    <<"Ps.", <<[ORTH |-> "Ps."]>>>>,
    <<"Pseud.", <<[ORTH |-> "Pseud."]>>>>,
    <<"R.A.M.C.", <<[ORTH |-> "R.A.M.C."]>>>>,
    <<"R.B.C.", <<[ORTH |-> "R.B.C."]>>>>,
    <<"R.C.M.", <<[ORTH |-> "R.C.M."]>>>>,
    <<"R.C.N.", <<[ORTH |-> "R.C.N."]>>>>,
    <<"R.C.O.G.", <<[ORTH |-> "R.C.O.G."]>>>>,
    <<"R.C.P.", <<[ORTH |-> "R.C.P."]>>>>,
    <<"R.C.S.", <<[ORTH |-> "R.C.S."]>>>>,
    <<"R.C.V.S.", <<[ORTH |-> "R.C.V.S."]>>>>,
    <<"R.D.", <<[ORTH |-> "R.D."]>>>>,
    <<"R.D.H.", <<[ORTH |-> "R.D.H."]>>>>,
    <<"R.E.G.", <<[ORTH |-> "R.E.G."]>>>>,
    <<"R.F.A.", <<[ORTH |-> "R.F.A."]>>>>,
    <<"R.F.P.", <<[ORTH |-> "R.F.P."]>>>>,
    <<"R.G.N.", <<[ORTH |-> "R.G.N."]>>>>,
    <<"R.H.", <<[ORTH |-> "R.H."]>>>>,
    <<"R.I.F.", <<[ORTH |-> "R.I.F."]>>>>,
    <<"R.M.N.", <<[ORTH |-> "R.M.N."]>>>>,
    <<"R.M.O.", <<[ORTH |-> "R.M.O."]>>>>,
    <<"R.M.P.", <<[ORTH |-> "R.M.P."]>>>>,
    <<"R.N.", <<[ORTH |-> "R.N."]>>>>,
    <<"R.N.M.S.", <<[ORTH |-> "R.N.M.S."]>>>>
  >>

\* tokenizer.py lines 418-517
special_cases_05 ==
  <<
    <<"R.O.A.", <<[ORTH |-> "R.O.A."]>>>>,
    <<"R.O.P.", <<[ORTH |-> "R.O.P."]>>>>,
    <<"R.R.L.", <<[ORTH |-> "R.R.L."]>>>>,
    <<"R.S.A.", <<[ORTH |-> "R.S.A."]>>>>,
    <<"R.S.B.", <<[ORTH |-> "R.S.B."]>>>>,
    <<"R.S.C.N.", <<[ORTH |-> "R.S.C.N."]>>>>,
    <<"R.S.M.", <<[ORTH |-> "R.S.M."]>>>>,
    <<"R.S.N.A.", <<[ORTH |-> "R.S.N.A."]>>>>,
    <<"R.S.P.", <<[ORTH |-> "R.S.P."]>>>>,
    <<"R.S.T.", <<[ORTH |-> "R.S.T."]>>>>,
    <<"R.S.T.M.H.", <<[ORTH |-> "R.S.T.M.H."]>>>>,
    <<"R.T.", <<[ORTH |-> "R.T."]>>>>,
    <<"R.U.", <<[ORTH |-> "R.U."]>>>>,
    <<"R.V.H.", <<[ORTH |-> "R.V.H."]>>>>,
    <<"Ras.", <<[ORTH |-> "Ras."]>>>>,
    <<"Rb.", <<[ORTH |-> "Rb."]>>>>,
    <<"Rba.", <<[ORTH |-> "Rba."]>>>>,
    <<"Rect.", <<[ORTH |-> "Rect."]>>>>,
    <<"Ref.", <<[ORTH |-> "Ref."]>>>>,
    <<"S.", <<[ORTH |-> "S."]>>>>,
    <<"S.-G.", <<[ORTH |-> "S.-G."]>>>>,
    <<"S.A.", <<[ORTH |-> "S.A."]>>>>,
    <<"S.A.L.", <<[ORTH |-> "S.A.L."]>>>>,
    <<"S.C.", <<[ORTH |-> "S.C."]>>>>,
    <<"S.C.M.", <<[ORTH |-> "S.C.M."]>>>>,
    <<"S.D.", <<[ORTH |-> "S.D."]>>>>,
    <<"S.E.D.", <<[ORTH |-> "S.E.D."]>>>>,
    <<"S.E.E.", <<[ORTH |-> "S.E.E."]>>>>,
    <<"S.F.", <<[ORTH |-> "S.F."]>>>>,
    <<"S.G.O.", <<[ORTH |-> "S.G.O."]>>>>,
    <<"S.I.D.", <<[ORTH |-> "S.I.D."]>>>>,
    <<"S.L.P.", <<[ORTH |-> "S.L.P."]>>>>,
    <<"S.L.T.", <<[ORTH |-> "S.L.T."]>>>>,
    <<"S.M.O.", <<[ORTH |-> "S.M.O."]>>>>,
    <<"S.S.D.", <<[ORTH |-> "S.S.D."]>>>>,
    <<"S.T.S.", <<[ORTH |-> "S.T.S."]>>>>,
    <<"S.m.", <<[ORTH |-> "S.m."]>>>>,
    <<"Sacch.", <<[ORTH |-> "Sacch."]>>>>,
    <<"Salm.", <<[ORTH |-> "Salm."]>>>>,
    <<"Sc.D.", <<[ORTH |-> "Sc.D."]>>>>,
    <<"Sens.", <<[ORTH |-> "Sens."]>>>>,
    <<"Sept.", <<[ORTH |-> "Sept."]>>>>,
    <<"St.", <<[ORTH |-> "St."]>>>>,
    <<"Str.", <<[ORTH |-> "Str."]>>>>,
    <<"Strep.", <<[ORTH |-> "Strep."]>>>>,
    <<"Strept.", <<[ORTH |-> "Strept."]>>>>,
    <<"Subg.", <<[ORTH |-> "Subg."]>>>>,
    <<"T.A.T.", <<[ORTH |-> "T.A.T."]>>>>,
    <<"T.E.D.", <<[ORTH |-> "T.E.D."]>>>>,
    <<"T.P.N.", <<[ORTH |-> "T.P.N."]>>>>,
    <<"Tab.", <<[ORTH |-> "Tab."]>>>>,
    <<"Tal.", <<[ORTH |-> "Tal."]>>>>,
    <<"Tb.N.", <<[ORTH |-> "Tb.N."]>>>>,
    <<"Tb.Sp.", <<[ORTH |-> "Tb.Sp."]>>>>,
    <<"Tb.Th.", <<[ORTH |-> "Tb.Th."]>>>>,
    <<"Tue.", <<[ORTH |-> "Tue."]>>>>,
    <<"Tues.", <<[ORTH |-> "Tues."]>>>>,
    <<"U.K.", <<[ORTH |-> "U.K."]>>>>,
    <<"U.S.", <<[ORTH |-> "U.S."]>>>>,
    <<"U.S.A.", <<[ORTH |-> "U.S.A."]>>>>,
    <<"U.S.M.H.", <<[ORTH |-> "U.S.M.H."]>>>>,
    <<"U.S.P.", <<[ORTH |-> "U.S.P."]>>>>,
    <<"U.S.P.H.S.", <<[ORTH |-> "U.S.P.H.S."]>>>>,
    <<"U.V.", <<[ORTH |-> "U.V."]>>>>,
    <<"Ungt.", <<[ORTH |-> "Ungt."]>>>>,
    <<"V.A.", <<[ORTH |-> "V.A."]>>>>,
    <<"V.A.C.", <<[ORTH |-> "V.A.C."]>>>>,
    <<"V.D.", <<[ORTH |-> "V.D."]>>>>,
    <<"V.M.D.", <<[ORTH |-> "V.M.D."]>>>>,
    <<"V.R.", <<[ORTH |-> "V.R."]>>>>,
    <<"Va.", <<[ORTH |-> "Va."]>>>>,
    <<"Vit.", <<[ORTH |-> "Vit."]>>>>,
    <<"W.", <<[ORTH |-> "W."]>>>>,
    <<"W.R.", <<[ORTH |-> "W.R."]>>>>,
    <<"W.Va.", <<[ORTH |-> "W.Va."]>>>>,
    <<"Wgt.", <<[ORTH |-> "Wgt."]>>>>,
    <<"Wis.", <<[ORTH |-> "Wis."]>>>>,
    <<"a.c.", <<[ORTH |-> "a.c."]>>>>,
    <<"a.m.", <<[ORTH |-> "a.m."]>>>>,
    <<"abbr.", <<[ORTH |-> "abbr."]>>>>,
    <<"abdom.", <<[ORTH |-> "abdom."]>>>>,
    <<"adj.", <<[ORTH |-> "adj."]>>>>,
    <<"amp.", <<[ORTH |-> "amp."]>>>>,
    <<"ams.", <<[ORTH |-> "ams."]>>>>,
    <<"ant.", <<[ORTH |-> "ant."]>>>>,
    <<"aq.", <<[ORTH |-> "aq."]>>>>,
    <<"arb.", <<[ORTH |-> "arb."]>>>>,
    <<"arg.", <<[ORTH |-> "arg."]>>>>,
    <<"artif.", <<[ORTH |-> "artif."]>>>>,
    <<"asn.", <<[ORTH |-> "asn."]>>>>,
    <<"asst.", <<[ORTH |-> "asst."]>>>>,
    <<"avg.", <<[ORTH |-> "avg."]>>>>,
    <<"b.d.s.", <<[ORTH |-> "b.d.s."]>>>>,
    <<"b.i.d.", <<[ORTH |-> "b.i.d."]>>>>,
    <<"b.p.", <<[ORTH |-> "b.p."]>>>>,
    <<"bilat.", <<[ORTH |-> "bilat."]>>>>,
    <<"bk.", <<[ORTH |-> "bk."]>>>>,
    <<"bldg.", <<[ORTH |-> "bldg."]>>>>,
    <<"bol.", <<[ORTH |-> "bol."]>>>>,
    <<"bull.", <<[ORTH |-> "bull."]>>>>
  >>

\* tokenizer.py lines 518-617
special_cases_06 ==
  <<
    <<"c.b.c.", <<[ORTH |-> "c.b.c."]>>>>,
    <<"c.p.", <<[ORTH |-> "c.p."]>>>>,
    <<"cal.", <<[ORTH |-> "cal."]>>>>,
    <<"cap.", <<[ORTH |-> "cap."]>>>>,
    <<"conc.", <<[ORTH |-> "conc."]>>>>,
    <<"concn.", <<[ORTH |-> "concn."]>>>>,
    <<"cont.", <<[ORTH |-> "cont."]>>>>,
    <<"cor.", <<[ORTH |-> "cor."]>>>>,
    <<"corr.", <<[ORTH |-> "corr."]>>>>,
    <<"cpd.", <<[ORTH |-> "cpd."]>>>>,
    <<"creat.", <<[ORTH |-> "creat."]>>>>,
    <<"crit.", <<[ORTH |-> "crit."]>>>>,
    <<"cu.mm.", <<[ORTH |-> "cu.mm."]>>>>,
    <<"cx.", <<[ORTH |-> "cx."]>>>>,
    <<"cyc.", <<[ORTH |-> "cyc."]>>>>,
    <<"cyl.", <<[ORTH |-> "cyl."]>>>>,
    <<"d.c.", <<[ORTH |-> "d.c."]>>>>,
    <<"d.p.", <<[ORTH |-> "d.p."]>>>>,
    <<"d.p.m.", <<[ORTH |-> "d.p.m."]>>>>,
    <<"d.v.", <<[ORTH |-> "d.v."]>>>>,
    <<"d.w.", <<[ORTH |-> "d.w."]>>>>,
    <<"decub.", <<[ORTH |-> "decub."]>>>>,
    <<"deg.", <<[ORTH |-> "deg."]>>>>,
    <<"det.", <<[ORTH |-> "det."]>>>>,
    <<"diam.", <<[ORTH |-> "diam."]>>>>,
    <<"dir.", <<[ORTH |-> "dir."]>>>>,
    <<"dn.", <<[ORTH |-> "dn."]>>>>,
    <<"doc.", <<[ORTH |-> "doc."]>>>>,
    <<"dp.", <<[ORTH |-> "dp."]>>>>,
    <<"dr.", <<[ORTH |-> "dr."]>>>>,
    <<"e.m.p.", <<[ORTH |-> "e.m.p."]>>>>,
    <<"elev.", <<[ORTH |-> "elev."]>>>>,
    <<"elix.", <<[ORTH |-> "elix."]>>>>,
    <<"em.", <<[ORTH |-> "em."]>>>>,
    <<"emuls.", <<[ORTH |-> "emuls."]>>>>,
    <<"endocrinol.", <<[ORTH |-> "endocrinol."]>>>>,
    <<"er.", <<[ORTH |-> "er."]>>>>,
    <<"exper.", <<[ORTH |-> "exper."]>>>>,
    <<"expt.", <<[ORTH |-> "expt."]>>>>,
    <<"f.b.", <<[ORTH |-> "f.b."]>>>>,
    <<"f.p.", <<[ORTH |-> "f.p."]>>>>,
    <<"fe.", <<[ORTH |-> "fe."]>>>>,
    <<"fig.", <<[ORTH |-> "fig."]>>>>,
    <<"fl.", <<[ORTH |-> "fl."]>>>>,
    <<"fld.", <<[ORTH |-> "fld."]>>>>,
    <<"ft.", <<[ORTH |-> "ft."]>>>>,
    <<"g-cal.", <<[ORTH |-> "g-cal."]>>>>,
    <<"gl.", <<[ORTH |-> "gl."]>>>>,
    <<"glu.", <<[ORTH |-> "glu."]>>>>,
    <<"gly.", <<[ORTH |-> "gly."]>>>>,
    <<"gm.", <<[ORTH |-> "gm."]>>>>,
    <<"gr.", <<[ORTH |-> "gr."]>>>>,
    <<"h.p.f.", <<[ORTH |-> "h.p.f."]>>>>,
    <<"h.s.", <<[ORTH |-> "h.s."]>>>>,
    <<"halluc.", <<[ORTH |-> "halluc."]>>>>,
    <<"hct.", <<[ORTH |-> "hct."]>>>>,
    <<"hun.", <<[ORTH |-> "hun."]>>>>,
    <<"hyp.", <<[ORTH |-> "hyp."]>>>>,
    <<"i.c.", <<[ORTH |-> "i.c."]>>>>,
    <<"i.d.", <<[ORTH |-> "i.d."]>>>>,
    <<"i.p.", <<[ORTH |-> "i.p."]>>>>,
    <<"i.r.", <<[ORTH |-> "i.r."]>>>>,
    <<"i.s.", <<[ORTH |-> "i.s."]>>>>,
    <<"i.th.", <<[ORTH |-> "i.th."]>>>>,
    <<"i.vag.", <<[ORTH |-> "i.vag."]>>>>,
    <<"ib.", <<[ORTH |-> "ib."]>>>>,
    <<"ibid.", <<[ORTH |-> "ibid."]>>>>,
    <<"inj.", <<[ORTH |-> "inj."]>>>>,
    <<"ino.", <<[ORTH |-> "ino."]>>>>,
    <<"instr.", <<[ORTH |-> "instr."]>>>>,
    <<"inv.", <<[ORTH |-> "inv."]>>>>,
    <<"irreg.", <<[ORTH |-> "irreg."]>>>>,
    <<"jour.", <<[ORTH |-> "jour."]>>>>,
    <<"jr.", <<[ORTH |-> "jr."]>>>>,
    <<"kc.", <<[ORTH |-> "kc."]>>>>,
    <<"kg.-cal.", <<[ORTH |-> "kg.-cal."]>>>>,
    <<"l.a.r.", <<[ORTH |-> "l.a.r."]>>>>,
    <<"l.p.n.", <<[ORTH |-> "l.p.n."]>>>>,
    <<"l.w.", <<[ORTH |-> "l.w."]>>>>,
    <<"lam.", <<[ORTH |-> "lam."]>>>>,
    <<"lar.", <<[ORTH |-> "lar."]>>>>,
    <<"lb.", <<[ORTH |-> "lb."]>>>>,
    <<"lim.", <<[ORTH |-> "lim."]>>>>,
    <<"lin.", <<[ORTH |-> "lin."]>>>>,
    <<"liq.", <<[ORTH |-> "liq."]>>>>,
    <<"lo.", <<[ORTH |-> "lo."]>>>>,
    <<"lot.", <<[ORTH |-> "lot."]>>>>,
    <<"lys.", <<[ORTH |-> "lys."]>>>>,
    <<"m.e.p.c.", <<[ORTH |-> "m.e.p.c."]>>>>,
    <<"mEq.", <<[ORTH |-> "mEq."]>>>>,
    <<"mac.", <<[ORTH |-> "mac."]>>>>,
    <<"mech.", <<[ORTH |-> "mech."]>>>>,
    <<"meg.", <<[ORTH |-> "meg."]>>>>,
    <<"meq.", <<[ORTH |-> "meq."]>>>>,
    <<"mev.", <<[ORTH |-> "mev."]>>>>,
    <<"mi.", <<[ORTH |-> "mi."]>>>>,
    <<"mil.", <<[ORTH |-> "mil."]>>>>,
    <<"min.", <<[ORTH |-> "min."]>>>>,
    <<"misc.", <<[ORTH |-> "misc."]>>>>,
    <<"mist.", <<[ORTH |-> "mist."]>>>>
  >>

\* tokenizer.py lines 618-717
special_cases_07 ==
  <<
    <<"muc.", <<[ORTH |-> "muc."]>>>>,
    <<"n.", <<[ORTH |-> "n."]>>>>,
    <<"n.c.a.", <<[ORTH |-> "n.c.a."]>>>>,
    <<"n.m.", <<[ORTH |-> "n.m."]>>>>,
    <<"n.u.", <<[ORTH |-> "n.u."]>>>>,
    <<"nU.", <<[ORTH |-> "nU."]>>>>,
    <<"nat.", <<[ORTH |-> "nat."]>>>>,
    <<"neo.", <<[ORTH |-> "neo."]>>>>,
    <<"neu.", <<[ORTH |-> "neu."]>>>>,
    <<"nm.", <<[ORTH |-> "nm."]>>>>,
    <<"noct.", <<[ORTH |-> "noct."]>>>>,
    <<"o.d.", <<[ORTH |-> "o.d."]>>>>,
    <<"o.h.", <<[ORTH |-> "o.h."]>>>>,
    <<"o.m.", <<[ORTH |-> "o.m."]>>>>,
    <<"o.n.", <<[ORTH |-> "o.n."]>>>>,
    <<"o.s.", <<[ORTH |-> "o.s."]>>>>,
    <<"o.u.", <<[ORTH |-> "o.u."]>>>>,
    <<"oto.", <<[ORTH |-> "oto."]>>>>,
    <<"oz.", <<[ORTH |-> "oz."]>>>>,
    <<"p.a.", <<[ORTH |-> "p.a."]>>>>,
    <<"p.c.", <<[ORTH |-> "p.c."]>>>>,
    <<"p.e.", <<[ORTH |-> "p.e."]>>>>,
    <<"p.i.d.", <<[ORTH |-> "p.i.d."]>>>>,
    <<"p.m.", <<[ORTH |-> "p.m."]>>>>,
    <<"p.o.", <<[ORTH |-> "p.o."]>>>>,
    <<"p.p.d.", <<[ORTH |-> "p.p.d."]>>>>,
    <<"p.r.", <<[ORTH |-> "p.r."]>>>>,
    <<"p.r.n.", <<[ORTH |-> "p.r.n."]>>>>,
    <<"p.s.p.", <<[ORTH |-> "p.s.p."]>>>>,
    <<"p.t.", <<[ORTH |-> "p.t."]>>>>,
    <<"p.v.", <<[ORTH |-> "p.v."]>>>>,
    <<"paediatr.", <<[ORTH |-> "paediatr."]>>>>,
    <<"pediatr.", <<[ORTH |-> "pediatr."]>>>>,
    <<"peri.", <<[ORTH |-> "peri."]>>>>,
    <<"pkwy.", <<[ORTH |-> "pkwy."]>>>>,
    <<"post-part.", <<[ORTH |-> "post-part."]>>>>,
    <<"postpart.", <<[ORTH |-> "postpart."]>>>>,
    <<"ppg.", <<[ORTH |-> "ppg."]>>>>,
    <<"ppt.", <<[ORTH |-> "ppt."]>>>>,
    <<"prob.", <<[ORTH |-> "prob."]>>>>,
    <<"prof.", <<[ORTH |-> "prof."]>>>>,
    <<"ps.p.", <<[ORTH |-> "ps.p."]>>>>,
    <<"pulv.", <<[ORTH |-> "pulv."]>>>>,
    <<"pur.", <<[ORTH |-> "pur."]>>>>,
    <<"pv.", <<[ORTH |-> "pv."]>>>>,
    <<"q.", <<[ORTH |-> "q."]>>>>,
    <<"q.a.d.", <<[ORTH |-> "q.a.d."]>>>>,
    <<"q.a.m.", <<[ORTH |-> "q.a.m."]>>>>,
    <<"q.d.", <<[ORTH |-> "q.d."]>>>>,
    <<"q.d.s.", <<[ORTH |-> "q.d.s."]>>>>,
    <<"q.h.", <<[ORTH |-> "q.h."]>>>>,
    <<"q.h.s.", <<[ORTH |-> "q.h.s."]>>>>,
    <<"q.i.d.", <<[ORTH |-> "q.i.d."]>>>>,
    <<"q.o.d.", <<[ORTH |-> "q.o.d."]>>>>,
    <<"q.p.m.", <<[ORTH |-> "q.p.m."]>>>>,
    <<"q.s.", <<[ORTH |-> "q.s."]>>>>,
    <<"q.v.", <<[ORTH |-> "q.v."]>>>>,
    <<"r.b.c.", <<[ORTH |-> "r.b.c."]>>>>,
    <<"r.h.", <<[ORTH |-> "r.h."]>>>>,
    <<"r.m.s.d.", <<[ORTH |-> "r.m.s.d."]>>>>,
    <<"ra.", <<[ORTH |-> "ra."]>>>>,
    <<"ras.", <<[ORTH |-> "ras."]>>>>,
    <<"rec.", <<[ORTH |-> "rec."]>>>>,
    <<"rect.", <<[ORTH |-> "rect."]>>>>,
    <<"ref.", <<[ORTH |-> "ref."]>>>>,
    <<"reg.", <<[ORTH |-> "reg."]>>>>,
    <<"rehab.", <<[ORTH |-> "rehab."]>>>>,
    <<"rep.", <<[ORTH |-> "rep."]>>>>,
    <<"s.", <<[ORTH |-> "s."]>>>>,
    <<"s.c.", <<[ORTH |-> "s.c."]>>>>,
    <<"s.e.e.", <<[ORTH |-> "s.e.e."]>>>>,
    <<"s.l.", <<[ORTH |-> "s.l."]>>>>,
    <<"s.o.s.", <<[ORTH |-> "s.o.s."]>>>>,
    <<"s.s.", <<[ORTH |-> "s.s."]>>>>,
    <<"satd.", <<[ORTH |-> "satd."]>>>>,
    <<"scr.", <<[ORTH |-> "scr."]>>>>,
    <<"sect.", <<[ORTH |-> "sect."]>>>>,
    <<"sed.", <<[ORTH |-> "sed."]>>>>,
    <<"sens.", <<[ORTH |-> "sens."]>>>>,
    <<"sep.", <<[ORTH |-> "sep."]>>>>,
    <<"shldr.", <<[ORTH |-> "shldr."]>>>>,
    <<"sl.", <<[ORTH |-> "sl."]>>>>,
    <<"slt.", <<[ORTH |-> "slt."]>>>>,
    <<"somat.", <<[ORTH |-> "somat."]>>>>,
    <<"sp.", <<[ORTH |-> "sp."]>>>>,
    <<"sph.", <<[ORTH |-> "sph."]>>>>,
    <<"spp.", <<[ORTH |-> "spp."]>>>>,
    <<"sq.", <<[ORTH |-> "sq."]>>>>,
    <<"sr.", <<[ORTH |-> "sr."]>>>>,
    <<"ss.", <<[ORTH |-> "ss."]>>>>,
    <<"ssp.", <<[ORTH |-> "ssp."]>>>>,
    <<"subfam.", <<[ORTH |-> "subfam."]>>>>,
    <<"subg.", <<[ORTH |-> "subg."]>>>>,
    <<"subgen.", <<[ORTH |-> "subgen."]>>>>,
    <<"subj.", <<[ORTH |-> "subj."]>>>>,
    <<"subsect.", <<[ORTH |-> "subsect."]>>>>,
    <<"subsp.", <<[ORTH |-> "subsp."]>>>>,
    <<"supp.", <<[ORTH |-> "supp."]>>>>,
    <<"sv.", <<[ORTH |-> "sv."]>>>>,
    <<"syr.", <<[ORTH |-> "syr."]>>>>
  >>

\* tokenizer.py lines 718-817
special_cases_08 ==
  <<
    <<"t.d.s.", <<[ORTH |-> "t.d.s."]>>>>,
    <<"t.i.d.", <<[ORTH |-> "t.i.d."]>>>>,
    <<"t.i.w.", <<[ORTH |-> "t.i.w."]>>>>,
    <<"t.p.n.", <<[ORTH |-> "t.p.n."]>>>>,
    <<"tab.", <<[ORTH |-> "tab."]>>>>,
    <<"tal.", <<[ORTH |-> "tal."]>>>>,
    <<"tbsp.", <<[ORTH |-> "tbsp."]>>>>,
    <<"tens.", <<[ORTH |-> "tens."]>>>>,
    <<"theor.", <<[ORTH |-> "theor."]>>>>,
    <<"thromb.", <<[ORTH |-> "thromb."]>>>>,
    <<"tinc.", <<[ORTH |-> "tinc."]>>>>,
    <<"tinct.", <<[ORTH |-> "tinct."]>>>>,
    <<"top.", <<[ORTH |-> "top."]>>>>,
    <<"u.d.", <<[ORTH |-> "u.d."]>>>>,
    <<"u.v.", <<[ORTH |-> "u.v."]>>>>,
    <<"ung.", <<[ORTH |-> "ung."]>>>>,
    <<"v.", <<[ORTH |-> "v."]>>>>,
    <<"v.r.", <<[ORTH |-> "v.r."]>>>>,
    <<"vac.", <<[ORTH |-> "vac."]>>>>,
    <<"vd.", <<[ORTH |-> "vd."]>>>>,
    <<"vit.", <<[ORTH |-> "vit."]>>>>,
    <<"viz.", <<[ORTH |-> "viz."]>>>>,
    <<"vol.", <<[ORTH |-> "vol."]>>>>,
    <<"w.", <<[ORTH |-> "w."]>>>>,
    <<"wgt.", <<[ORTH |-> "wgt."]>>>>,
    <<"wt.", <<[ORTH |-> "wt."]>>>>,
    <<"yd.", <<[ORTH |-> "yd."]>>>>,
    <<"yr.", <<[ORTH |-> "yr."]>>>>,
    <<"zool.", <<[ORTH |-> "zool."]>>>>,
    <<"'s", <<[ORTH |-> "'s"]>>>>,
    <<"&amp;", <<[ORTH |-> "&amp;"]>>>>,
    <<"&gt;", <<[ORTH |-> "&gt;"]>>>>,
    <<"&lt;", <<[ORTH |-> "&lt;"]>>>>,
    <<"+/-", <<[ORTH |-> "+/-"]>>>>,
    <<"...", <<[ORTH |-> "..."]>>>>,
    <<"0.25%", <<[ORTH |-> "0.25%"]>>>>,
    <<"0.50%", <<[ORTH |-> "0.50%"]>>>>,
    <<"0.65%", <<[ORTH |-> "0.65%"]>>>>,
    <<"0.75%", <<[ORTH |-> "0.75%"]>>>>,
    <<"00:00:00.0", <<[ORTH |-> "00:00:00.0"]>>>>,
    <<"6h.p.r.n.", <<[ORTH |-> "6h.p.r.n."]>>>>,
    <<"A.", <<[ORTH |-> "A."]>>>>,
    <<"A.FIB", <<[ORTH |-> "A.FIB"]>>>>,
    <<"A.Fib", <<[ORTH |-> "A.Fib"]>>>>,
    <<"A.fib", <<[ORTH |-> "A.fib"]>>>>,
    <<"a.fib", <<[ORTH |-> "a.fib"]>>>>,
    <<"A/P", <<[ORTH |-> "A/P"]>>>>,
    <<"AMOXICIL...", <<[ORTH |-> "AMOXICIL..."]>>>>,
    <<"B.", <<[ORTH |-> "B."]>>>>,
    <<"B.I.", <<[ORTH |-> "B.I."]>>>>,
    <<"B.I.D.", <<[ORTH |-> "B.I.D."]>>>>,
    <<"Bilat.", <<[ORTH |-> "Bilat."]>>>>,
    <<"c.b.i.d.", <<[ORTH |-> "c.b.i.d."]>>>>,
    <<"c.q.1h.p.r.n.", <<[ORTH |-> "c.q.1h.p.r.n."]>>>>,
    <<"C.", <<[ORTH |-> "C."]>>>>,
    <<"C.Diff", <<[ORTH |-> "C.Diff"]>>>>,
    <<"C.diff", <<[ORTH |-> "C.diff"]>>>>,
    <<"C.difficile", <<[ORTH |-> "C.difficile"]>>>>,
    <<"C/W", <<[ORTH |-> "C/W"]>>>>,
    <<"D.", <<[ORTH |-> "D."]>>>>,
    <<"D/C", <<[ORTH |-> "D/C"]>>>>,
    <<"D/C'D", <<[ORTH |-> "D/C'D"]>>>>,
    <<"D/c'd", <<[ORTH |-> "D/c'd"]>>>>,
    <<"D/w", <<[ORTH |-> "D/w"]>>>>,
    <<"DR.", <<[ORTH |-> "DR."]>>>>,
    <<"E.", <<[ORTH |-> "E."]>>>>,
    <<"E.C.", <<[ORTH |-> "E.C."]>>>>,
    <<"E.C.", <<[ORTH |-> "E.C."]>>>>,
    <<"E.C.", <<[ORTH |-> "E.C."]>>>>,
    <<"E.COLI", <<[ORTH |-> "E.COLI"]>>>>,
    <<"E.Coli", <<[ORTH |-> "E.Coli"]>>>>,
    <<"E.G.", <<[ORTH |-> "E.G."]>>>>,
    <<"E.coli", <<[ORTH |-> "E.coli"]>>>>,
    <<"F.", <<[ORTH |-> "F."]>>>>,
    <<"F/U", <<[ORTH |-> "F/U"]>>>>,
    <<"G.", <<[ORTH |-> "G."]>>>>,
    <<"H.", <<[ORTH |-> "H."]>>>>,
    <<"H/O", <<[ORTH |-> "H/O"]>>>>,
    <<"I.", <<[ORTH |-> "I."]>>>>,
    <<"I.E.", <<[ORTH |-> "I.E."]>>>>,
    <<"IMMED.", <<[ORTH |-> "IMMED."]>>>>,
    <<"J.", <<[ORTH |-> "J."]>>>>,
    <<"Jr.", <<[ORTH |-> "Jr."]>>>>,
    <<"K.", <<[ORTH |-> "K."]>>>>,
    <<"L.", <<[ORTH |-> "L."]>>>>,
    <<"M.", <<[ORTH |-> "M."]>>>>,
    <<"M.B.B.S.", <<[ORTH |-> "M.B.B.S."]>>>>,
    <<"M.S.C.", <<[ORTH |-> "M.S.C."]>>>>,
    <<"Misc.", <<[ORTH |-> "Misc."]>>>>,
    <<"Mr.", <<[ORTH |-> "Mr."]>>>>,
    <<"Mrs.", <<[ORTH |-> "Mrs."]>>>>,
    <<"Ms.", <<[ORTH |-> "Ms."]>>>>,
    <<"N.", <<[ORTH |-> "N."]>>>>,
    <<"No.1", <<[ORTH |-> "No.1"]>>>>,
    <<"No.2", <<[ORTH |-> "No.2"]>>>>,
    <<"O.", <<[ORTH |-> "O."]>>>>,
    <<"P.", <<[ORTH |-> "P."]>>>>,
    <<"P.A.", <<[ORTH |-> "P.A."]>>>>,
    <<"P.O.", <<[ORTH |-> "P.O."]>>>>,
    <<"PH.D.", <<[ORTH |-> "PH.D."]>>>>
  >>

\* tokenizer.py lines 818-917
special_cases_09 ==
  <<
    <<"PULM.", <<[ORTH |-> "PULM."]>>>>,
    <<"Pt.", <<[ORTH |-> "Pt."]>>>>,
    <<"Q.", <<[ORTH |-> "Q."]>>>>,
    <<"R.", <<[ORTH |-> "R."]>>>>,
    <<"R/o'd", <<[ORTH |-> "R/o'd"]>>>>,
    <<"REL.", <<[ORTH |-> "REL."]>>>>,
    <<"RESP.", <<[ORTH |-> "RESP."]>>>>,
    <<"Rd.", <<[ORTH |-> "Rd."]>>>>,
    <<"S.", <<[ORTH |-> "S."]>>>>,
    <<"S.O.A.R.", <<[ORTH |-> "S.O.A.R."]>>>>,
    <<"SUSP.", <<[ORTH |-> "SUSP."]>>>>,
    <<"SUST.", <<[ORTH |-> "SUST."]>>>>,
    <<"Ste.", <<[ORTH |-> "Ste."]>>>>,
    <<"T.", <<[ORTH |-> "T."]>>>>,
    <<"TEMP.", <<[ORTH |-> "TEMP."]>>>>,
    <<"TERM", <<[ORTH |-> "TERM"]>>>>,
    <<"Tel.", <<[ORTH |-> "Tel."]>>>>,
    <<"U.", <<[ORTH |-> "U."]>>>>,
    <<"U/S", <<[ORTH |-> "U/S"]>>>>,
    <<"V.", <<[ORTH |-> "V."]>>>>,
    <<"VIT.", <<[ORTH |-> "VIT."]>>>>,
    <<"X.", <<[ORTH |-> "X."]>>>>,
    <<"Y.", <<[ORTH |-> "Y."]>>>>,
    <<"Z.", <<[ORTH |-> "Z."]>>>>,
    <<"a.", <<[ORTH |-> "a."]>>>>,
    <<"a.fib", <<[ORTH |-> "a.fib"]>>>>,
    <<"b.", <<[ORTH |-> "b."]>>>>,
    <<"bilat.", <<[ORTH |-> "bilat."]>>>>,
    <<"c.", <<[ORTH |-> "c."]>>>>,
    <<"c/o", <<[ORTH |-> "c/o"]>>>>,
    <<"c/w", <<[ORTH |-> "c/w"]>>>>,
    <<"d/c", <<[ORTH |-> "d/c"]>>>>,
    <<"d/c'd", <<[ORTH |-> "d/c'd"]>>>>,
    <<"d/c'd", <<[ORTH |-> "d/c'd"]>>>>,
    <<"d/c'ed", <<[ORTH |-> "d/c'ed"]>>>>,
    <<"d/ced", <<[ORTH |-> "d/ced"]>>>>,
    <<"d/t", <<[ORTH |-> "d/t"]>>>>,
    <<"dc.", <<[ORTH |-> "dc."]>>>>,
    <<"e.", <<[ORTH |-> "e."]>>>>,
    <<"e.coli", <<[ORTH |-> "e.coli"]>>>>,
    <<"e.g.", <<[ORTH |-> "e.g."]>>>>,
    <<"etc.", <<[ORTH |-> "etc."]>>>>,
    <<"f/u", <<[ORTH |-> "f/u"]>>>>,
    <<"follow-up", <<[ORTH |-> "follow-up"]>>>>,
    <<"h.", <<[ORTH |-> "h."]>>>>,
    <<"h/o", <<[ORTH |-> "h/o"]>>>>,
    <<"i.e.", <<[ORTH |-> "i.e."]>>>>,
    <<"incr.", <<[ORTH |-> "incr."]>>>>,
    <<"l.", <<[ORTH |-> "l."]>>>>,
    <<"lbs.", <<[ORTH |-> "lbs."]>>>>,
    <<"misc.", <<[ORTH |-> "misc."]>>>>,
    <<"mr.", <<[ORTH |-> "mr."]>>>>,
    <<"mrs.", <<[ORTH |-> "mrs."]>>>>,
    <<"ms.", <<[ORTH |-> "ms."]>>>>,
    <<"n.p.o.", <<[ORTH |-> "n.p.o."]>>>>,
    <<"p.g.", <<[ORTH |-> "p.g."]>>>>,
    <<"p.i.q.4h", <<[ORTH |-> "p.i.q.4h"]>>>>,
    <<"p.o.q.4h", <<[ORTH |-> "p.o.q.4h"]>>>>,
    <<"p.o.", <<[ORTH |-> "p.o."]>>>>,
    <<"p.o./p.g.", <<[ORTH |-> "p.o./p.g."]>>>>,
    <<"p.o.b.i.d.", <<[ORTH |-> "p.o.b.i.d."]>>>>,
    <<"p.o.q.", <<[ORTH |-> "p.o.q."]>>>>,
    <<"p.o.q.a.m.", <<[ORTH |-> "p.o.q.a.m."]>>>>,
    <<"p.o.q.d.", <<[ORTH |-> "p.o.q.d."]>>>>,
    <<"p.o.q.d", <<[ORTH |-> "p.o.q.d"]>>>>,
    <<"p.o.q.p.m.", <<[ORTH |-> "p.o.q.p.m."]>>>>,
    <<"pt.", <<[ORTH |-> "pt."]>>>>,
    <<"pulm.", <<[ORTH |-> "pulm."]>>>>,
    <<"q.", <<[ORTH |-> "q."]>>>>,
    <<"q.10h.", <<[ORTH |-> "q.10h."]>>>>,
    <<"q.11h.", <<[ORTH |-> "q.11h."]>>>>,
    <<"q.12h.", <<[ORTH |-> "q.12h."]>>>>,
    <<"q.13h.", <<[ORTH |-> "q.13h."]>>>>,
    <<"q.14h.", <<[ORTH |-> "q.14h."]>>>>,
    <<"q.15h.", <<[ORTH |-> "q.15h."]>>>>,
    <<"q.16h.", <<[ORTH |-> "q.16h."]>>>>,
    <<"q.1h.", <<[ORTH |-> "q.1h."]>>>>,
    <<"q.24", <<[ORTH |-> "q.24"]>>>>,
    <<"q.24h", <<[ORTH |-> "q.24h"]>>>>,
    <<"q.24h.", <<[ORTH |-> "q.24h."]>>>>,
    <<"q.2h.", <<[ORTH |-> "q.2h."]>>>>,
    <<"q.3h.", <<[ORTH |-> "q.3h."]>>>>,
    <<"q.4 h.", <<[ORTH |-> "q.4 h."]>>>>,
    <<"q.4-6h", <<[ORTH |-> "q.4-6h"]>>>>,
    <<"q.48", <<[ORTH |-> "q.48"]>>>>,
    <<"q.4h.", <<[ORTH |-> "q.4h."]>>>>,
    <<"q.4.h.", <<[ORTH |-> "q.4.h."]>>>>,
    <<"q.5h.", <<[ORTH |-> "q.5h."]>>>>,
    <<"q.5.h.", <<[ORTH |-> "q.5.h."]>>>>,
    <<"q.6h.", <<[ORTH |-> "q.6h."]>>>>,
    <<"q.6.h.", <<[ORTH |-> "q.6.h."]>>>>,
    <<"q.7h.", <<[ORTH |-> "q.7h."]>>>>,
    <<"q.7.h.", <<[ORTH |-> "q.7.h."]>>>>,
    <<"q.8h.", <<[ORTH |-> "q.8h."]>>>>,
    <<"q.8.h.", <<[ORTH |-> "q.8.h."]>>>>,
    <<"q.9h.", <<[ORTH |-> "q.9h."]>>>>,
    <<"q.9.h.", <<[ORTH |-> "q.9.h."]>>>>,
    <<"q.a.c.", <<[ORTH |-> "q.a.c."]>>>>,
    <<"q.a.m.", <<[ORTH |-> "q.a.m."]>>>>,
    <<"q.d.", <<[ORTH |-> "q.d."]>>>>
  >>

\* tokenizer.py lines 918-946
special_cases_10 ==
  <<
    <<"q.day", <<[ORTH |-> "q.day"]>>>>,
    <<"q.eight", <<[ORTH |-> "q.eight"]>>>>,
    <<"q.five", <<[ORTH |-> "q.five"]>>>>,
    <<"q.four", <<[ORTH |-> "q.four"]>>>>,
    <<"q.nine", <<[ORTH |-> "q.nine"]>>>>,
    <<"q.one", <<[ORTH |-> "q.one"]>>>>,
    <<"q.p.m.", <<[ORTH |-> "q.p.m."]>>>>,
    <<"q.seven", <<[ORTH |-> "q.seven"]>>>>,
    <<"q.six", <<[ORTH |-> "q.six"]>>>>,
    <<"q.three", <<[ORTH |-> "q.three"]>>>>,
    <<"q.two", <<[ORTH |-> "q.two"]>>>>,
    <<"r.", <<[ORTH |-> "r."]>>>>,
    <<"r/o", <<[ORTH |-> "r/o"]>>>>,
    <<"r/r/w", <<[ORTH |-> "r/r/w"]>>>>,
    <<"resp.", <<[ORTH |-> "resp."]>>>>,
    <<"s.c.b.i.d.", <<[ORTH |-> "s.c.b.i.d."]>>>>,
    <<"s.c.q.1h.p.r.n", <<[ORTH |-> "s.c.q.1h.p.r.n"]>>>>,
    <<"s/p", <<[ORTH |-> "s/p"]>>>>,
    <<"S/P", <<[ORTH |-> "S/P"]>>>>,
    <<"sat.", <<[ORTH |-> "sat."]>>>>,
    <<"tel.", <<[ORTH |-> "tel."]>>>>,
    <<"temp.", <<[ORTH |-> "temp."]>>>>,
    <<"vs.", <<[ORTH |-> "vs."]>>>>,
    <<"w/", <<[ORTH |-> "w/"]>>>>,
    <<"W/O", <<[ORTH |-> "W/O"]>>>>,
    <<"x-ray", <<[ORTH |-> "x-ray"]>>>>,
    <<"y/o", <<[ORTH |-> "y/o"]>>>>,
    <<"y.o", <<[ORTH |-> "y.o"]>>>>,
    <<"y.o.", <<[ORTH |-> "y.o."]>>>>
  >>

Spelling_01 ==
  <<
    <<"A.A.A.", <<"A",".","A",".","A",".">>>>,
    <<"A.A.A.S.", <<"A",".","A",".","A",".","S",".">>>>,
    <<"A.A.B.B.", <<"A",".","A",".","B",".","B",".">>>>,
    <<"A.A.C.P.", <<"A",".","A",".","C",".","P",".">>>>,
    <<"A.A.D.", <<"A",".","A",".","D",".">>>>,
    <<"A.A.D.P.", <<"A",".","A",".","D",".","P",".">>>>,
    <<"A.A.D.R.", <<"A",".","A",".","D",".","R",".">>>>,
    <<"A.A.D.S.", <<"A",".","A",".","D",".","S",".">>>>,
    <<"A.A.E.", <<"A",".","A",".","E",".">>>>,
    <<"A.A.F.P.", <<"A",".","A",".","F",".","P",".">>>>,
    <<"A.A.G.P.", <<"A",".","A",".","G",".","P",".">>>>,
    <<"A.A.I.", <<"A",".","A",".","I",".">>>>,
    <<"A.A.I.D.", <<"A",".","A",".","I",".","D",".">>>>,
    <<"A.A.I.N.", <<"A",".","A",".","I",".","N",".">>>>,
    <<"A.A.M.A.", <<"A",".","A",".","M",".","A",".">>>>,
    <<"A.A.M.C.", <<"A",".","A",".","M",".","C",".">>>>,
    <<"A.A.M.D.", <<"A",".","A",".","M",".","D",".">>>>,
    <<"A.A.M.R.L.", <<"A",".","A",".","M",".","R",".","L",".">>>>,
    <<"A.A.O.", <<"A",".","A",".","O",".">>>>,
    <<"A.A.O.P.", <<"A",".","A",".","O",".","P",".">>>>,
    <<"A.A.P.", <<"A",".","A",".","P",".">>>>,
    <<"A.A.P.A.", <<"A",".","A",".","P",".","A",".">>>>,
    <<"A.A.P.B.", <<"A",".","A",".","P",".","B",".">>>>,
    <<"A.A.P.M.R.", <<"A",".","A",".","P",".","M",".","R",".">>>>,
    <<"A.A.P.S.", <<"A",".","A",".","P",".","S",".">>>>,
    <<"A.B.E.P.P.", <<"A",".","B",".","E",".","P",".","P",".">>>>,
    <<"A.C.", <<"A",".","C",".">>>>,
    <<"A.C.A.", <<"A",".","C",".","A",".">>>>,
    <<"A.C.G.", <<"A",".","C",".","G",".">>>>,
    <<"A.C.H.A.", <<"A",".","C",".","H",".","A",".">>>>,
    <<"A.C.N.M.", <<"A",".","C",".","N",".","M",".">>>>,
    <<"A.C.O.G.", <<"A",".","C",".","O",".","G",".">>>>,
    <<"A.C.O.H.A.", <<"A",".","C",".","O",".","H",".","A",".">>>>,
    <<"A.C.O.O.G.", <<"A",".","C",".","O",".","O",".","G",".">>>>,
    <<"A.C.O.S.", <<"A",".","C",".","O",".","S",".">>>>,
    <<"A.C.P.", <<"A",".","C",".","P",".">>>>,
    <<"A.C.R.", <<"A",".","C",".","R",".">>>>,
    <<"A.C.S.", <<"A",".","C",".","S",".">>>>,
    <<"A.C.S.M.", <<"A",".","C",".","S",".","M",".">>>>,
    <<"A.D.", <<"A",".","D",".">>>>,
    <<"A.D.A.", <<"A",".","D",".","A",".">>>>,
    <<"A.E.", <<"A",".","E",".">>>>,
    <<"A.E.S.", <<"A",".","E",".","S",".">>>>,
    <<"A.G.A.", <<"A",".","G",".","A",".">>>>,
    <<"A.G.S.", <<"A",".","G",".","S",".">>>>,
    <<"A.H.A.", <<"A",".","H",".","A",".">>>>,
    <<"A.H.P.", <<"A",".","H",".","P",".">>>>,
    <<"A.H.S.", <<"A",".","H",".","S",".">>>>,
    <<"A.I.", <<"A",".","I",".">>>>,
    <<"A.I.C.", <<"A",".","I",".","C",".">>>>,
    <<"A.I.H.", <<"A",".","I",".","H",".">>>>,
    <<"A.I.H.A.", <<"A",".","I",".","H",".","A",".">>>>,
    <<"A.L.A.", <<"A",".","L",".","A",".">>>>,
    <<"A.L.R.O.S.", <<"A",".","L",".","R",".","O",".","S",".">>>>,
    <<"A.M.", <<"A",".","M",".">>>>,
    <<"A.M.A.", <<"A",".","M",".","A",".">>>>,
    <<"A.M.R.L.", <<"A",".","M",".","R",".","L",".">>>>,
    <<"A.M.S.", <<"A",".","M",".","S",".">>>>,
    <<"A.M.S.A.", <<"A",".","M",".","S",".","A",".">>>>,
    <<"A.M.W.A.", <<"A",".","M",".","W",".","A",".">>>>,
    <<"A.N.A.", <<"A",".","N",".","A",".">>>>,
    <<"A.O.A.", <<"A",".","O",".","A",".">>>>,
    <<"A.O.P.A.", <<"A",".","O",".","P",".","A",".">>>>,
    <<"A.O.S.", <<"A",".","O",".","S",".">>>>,
    <<"A.O.T.A.", <<"A",".","O",".","T",".","A",".">>>>,
    <<"A.P.A.", <<"A",".","P",".","A",".">>>>,
    <<"A.P.H.A.", <<"A",".","P",".","H",".","A",".">>>>,
    <<"A.P.M.", <<"A",".","P",".","M",".">>>>,
    <<"A.P.S.", <<"A",".","P",".","S",".">>>>,
    <<"A.P.T.A.", <<"A",".","P",".","T",".","A",".">>>>,
    <<"A.Ph.A.", <<"A",".","P","h",".","A",".">>>>,
    <<"A.R.C.", <<"A",".","R",".","C",".">>>>,
    <<"A.R.M.H.", <<"A",".","R",".","M",".","H",".">>>>,
    <<"A.R.N.M.D.", <<"A",".","R",".","N",".","M",".","D",".">>>>,
    <<"A.R.O.", <<"A",".","R",".","O",".">>>>,
    <<"A.R.R.S.", <<"A",".","R",".","R",".","S",".">>>>,
    <<"A.R.S.", <<"A",".","R",".","S",".">>>>,
    <<"A.R.T.", <<"A",".","R",".","T",".">>>>,
    <<"A.S.A.I.O.", <<"A",".","S",".","A",".","I",".","O",".">>>>,
    <<"A.S.B.", <<"A",".","S",".","B",".">>>>,
    <<"A.S.C.H.", <<"A",".","S",".","C",".","H",".">>>>,
    <<"A.S.C.I.", <<"A",".","S",".","C",".","I",".">>>>,
    <<"A.S.C.L.T.", <<"A",".","S",".","C",".","L",".","T",".">>>>,
    <<"A.S.C.P.", <<"A",".","S",".","C",".","P",".">>>>,
    <<"A.S.G.", <<"A",".","S",".","G",".">>>>,
    <<"A.S.H.", <<"A",".","S",".","H",".">>>>,
    <<"A.S.H.A.", <<"A",".","S",".","H",".","A",".">>>>,
    <<"A.S.H.I.", <<"A",".","S",".","H",".","I",".">>>>,
    <<"A.S.H.P.", <<"A",".","S",".","H",".","P",".">>>>,
    <<"A.S.I.I.", <<"A",".","S",".","I",".","I",".">>>>,
    <<"A.S.I.M.", <<"A",".","S",".","I",".","M",".">>>>,
    <<"A.S.M.", <<"A",".","S",".","M",".">>>>,
    <<"A.S.P.", <<"A",".","S",".","P",".">>>>,
    <<"A.S.R.T.", <<"A",".","S",".","R",".","T",".">>>>,
    <<"A.S.T.M.H.", <<"A",".","S",".","T",".","M",".","H",".">>>>,
    <<"A.U.", <<"A",".","U",".">>>>,
    <<"Act.", <<"A","c","t",".">>>>,
    <<"Alta.", <<"A","l","t","a",".">>>>,
    <<"Anat.", <<"A","n","a","t",".">>>>,
    <<"Apr.", <<"A","p","r",".">>>>
  >>

Spelling_02 ==
  <<
    <<"Aq.", <<"A","q",".">>>>,
    <<"As.M.", <<"A","s",".","M",".">>>>,
    <<"Au.D.", <<"A","u",".","D",".">>>>,
    <<"Aug.", <<"A","u","g",".">>>>,
    <<"B.A.", <<"B",".","A",".">>>>,
    <<"B.B.B.", <<"B",".","B",".","B",".">>>>,
    <<"B.D.A.", <<"B",".","D",".","A",".">>>>,
    <<"B.D.S.", <<"B",".","D",".","S",".">>>>,
    <<"B.D.Sc.", <<"B",".","D",".","S","c",".">>>>,
    <<"B.F.A.", <<"B",".","F",".","A",".">>>>,
    <<"B.L.R.O.A.", <<"B",".","L",".","R",".","O",".","A",".">>>>,
    <<"B.M.", <<"B",".","M",".">>>>,
    <<"B.M.A.", <<"B",".","M",".","A",".">>>>,
    <<"B.M.S.", <<"B",".","M",".","S",".">>>>,
    <<"B.O.A.", <<"B",".","O",".","A",".">>>>,
    <<"B.P.", <<"B",".","P",".">>>>,
    <<"B.P.A.", <<"B",".","P",".","A",".">>>>,
    <<"B.P.H.", <<"B",".","P",".","H",".">>>>,
    <<"B.R.S.", <<"B",".","R",".","S",".">>>>,
    <<"B.S.", <<"B",".","S",".">>>>,
    <<"B.S.N.", <<"B",".","S",".","N",".">>>>,
    <<"B.T.U.", <<"B",".","T",".","U",".">>>>,
    <<"Bact.", <<"B","a","c","t",".">>>>,
    <<"Blvd.", <<"B","l","v","d",".">>>>,
    <<"Bull.", <<"B","u","l","l",".">>>>,
    <<"C.", <<"C",".">>>>,
    <<"C.A.P.", <<"C",".","A",".","P",".">>>>,
    <<"C.D.", <<"C",".","D",".">>>>,
    <<"C.H.A.", <<"C",".","H",".","A",".">>>>,
    <<"C.I.H.", <<"C",".","I",".","H",".">>>>,
    <<"C.I.N.P.", <<"C",".","I",".","N",".","P",".">>>>,
    <<"C.I.O.M.S.", <<"C",".","I",".","O",".","M",".","S",".">>>>,
    <<"C.M.A.", <<"C",".","M",".","A",".">>>>,
    <<"C.N.A.", <<"C",".","N",".","A",".">>>>,
    <<"C.N.M.", <<"C",".","N",".","M",".">>>>,
    <<"C.O.A.", <<"C",".","O",".","A",".">>>>,
    <<"C.O.S.", <<"C",".","O",".","S",".">>>>,
    <<"C.P.H.", <<"C",".","P",".","H",".">>>>,
    <<"C.R.N.A.", <<"C",".","R",".","N",".","A",".">>>>,
    <<"C.R.N.P.", <<"C",".","R",".","N",".","P",".">>>>,
    <<"C.S.A.A.", <<"C",".","S",".","A",".","A",".">>>>,
    <<"C.S.G.B.I.", <<"C",".","S",".","G",".","B",".","I",".">>>>,
    <<"C.T.A.", <<"C",".","T",".","A",".">>>>,
    <<"Cel.", <<"C","e","l",".">>>>,
    <<"Ch.", <<"C","h",".">>>>,
    <<"Colo.", <<"C","o","l","o",".">>>>,
    <<"Conn.", <<"C","o","n","n",".">>>>,
    <<"Cx.", <<"C","x",".">>>>,
    <<"D.", <<"D",".">>>>,
    <<"D.A.", <<"D",".","A",".">>>>,
    <<"D.A.H.", <<"D",".","A",".","H",".">>>>,
    <<"D.C.", <<"D",".","C",".">>>>,
    <<"D.C.F.", <<"D",".","C",".","F",".">>>>,
    <<"D.C.H.", <<"D",".","C",".","H",".">>>>,
    <<"D.C.O.G.", <<"D",".","C",".","O",".","G",".">>>>,
    <<"D.D.S.", <<"D",".","D",".","S",".">>>>,
    <<"D.D.Sc.", <<"D",".","D",".","S","c",".">>>>,
    <<"D.Hg.", <<"D",".","H","g",".">>>>,
    <<"D.Hy.", <<"D",".","H","y",".">>>>,
    <<"D.J.", <<"D",".","J",".">>>>,
    <<"D.M.R.D.", <<"D",".","M",".","R",".","D",".">>>>,
    <<"D.M.R.T.", <<"D",".","M",".","R",".","T",".">>>>,
    <<"D.O.", <<"D",".","O",".">>>>,
    <<"D.O.A.", <<"D",".","O",".","A",".">>>>,
    <<"D.P.", <<"D",".","P",".">>>>,
    <<"D.P.H.", <<"D",".","P",".","H",".">>>>,
    <<"D.P.M.", <<"D",".","P",".","M",".">>>>,
    <<"D.S.C.", <<"D",".","S",".","C",".">>>>,
    <<"D.T.P.", <<"D",".","T",".","P",".">>>>,
    <<"D.W.", <<"D",".","W",".">>>>,
    <<"Dec.", <<"D","e","c",".">>>>,
    <<"Deg.", <<"D","e","g",".">>>>,
    <<"Det.", <<"D","e","t",".">>>>,
    <<"Dn.", <<"D","n",".">>>>,
    <<"Dr.", <<"D","r",".">>>>,
    <<"Dr.P.H.", <<"D","r",".","P",".","H",".">>>>,
    <<"E.F.", <<"E",".","F",".">>>>,
    <<"E.M.S.", <<"E",".","M",".","S",".">>>>,
    <<"E.R.A.", <<"E",".","R",".","A",".">>>>,
    <<"Eur.", <<"E","u","r",".">>>>,
    <<"Extr.", <<"E","x","t","r",".">>>>,
    <<"F.", <<"F",".">>>>,
    <<"F.A.C.D.", <<"F",".","A",".","C",".","D",".">>>>,
    <<"F.A.C.O.G.", <<"F",".","A",".","C",".","O",".","G",".">>>>,
    <<"F.A.C.O.I.", <<"F",".","A",".","C",".","O",".","I",".">>>>,
    <<"F.A.C.P.", <<"F",".","A",".","C",".","P",".">>>>,
    <<"F.A.C.S.", <<"F",".","A",".","C",".","S",".">>>>,
    <<"F.A.C.S.M.", <<"F",".","A",".","C",".","S",".","M",".">>>>,
    <<"F.A.M.A.", <<"F",".","A",".","M",".","A",".">>>>,
    <<"F.A.P.H.A.", <<"F",".","A",".","P",".","H",".","A",".">>>>,
    <<"F.B.", <<"F",".","B",".">>>>,
    <<"F.I.C.D.", <<"F",".","I",".","C",".","D",".">>>>,
    <<"F.I.C.S.", <<"F",".","I",".","C",".","S",".">>>>,
    <<"F.L.T.", <<"F",".","L",".","T",".">>>>,
    <<"F.R.C.P.", <<"F",".","R",".","C",".","P",".">>>>,
    <<"F.R.C.P.C.", <<"F",".","R",".","C",".","P",".","C",".">>>>,
    <<"F.R.C.P.E.", <<"F",".","R",".","C",".","P",".","E",".">>>>,
    <<"F.R.C.P.I.", <<"F",".","R",".","C",".","P",".","I",".">>>>,
    <<"F.R.C.S.", <<"F",".","R",".","C",".","S",".">>>>,
    <<"F.R.C.S.E.", <<"F",".","R",".","C",".","S",".","E",".">>>>
  >>

Spelling_03 ==
  <<
    <<"F.R.C.S.I.", <<"F",".","R",".","C",".","S",".","I",".">>>>,
    <<"F.R.C.V.S.", <<"F",".","R",".","C",".","V",".","S",".">>>>,
    <<"F.R.F.P.S.G.", <<"F",".","R",".","F",".","P",".","S",".","G",".">>>>,
    <<"F.U.O.", <<"F",".","U",".","O",".">>>>,
    <<"F.h.", <<"F",".","h",".">>>>,
    <<"F.p.", <<"F",".","p",".">>>>,
    <<"Feb.", <<"F","e","b",".">>>>,
    <<"Fri.", <<"F","r","i",".">>>>,
    <<"G.M.C.", <<"G",".","M",".","C",".">>>>,
    <<"Galv.", <<"G","a","l","v",".">>>>,
    <<"Gr.", <<"G","r",".">>>>,
    <<"Grad.", <<"G","r","a","d",".">>>>,
    <<"H.C.", <<"H",".","C",".">>>>,
    <<"H.d.", <<"H",".","d",".">>>>,
    <<"HOO.", <<"H","O","O",".">>>>,
    <<"I.A.G.P.", <<"I",".","A",".","G",".","P",".">>>>,
    <<"I.A.G.U.S.", <<"I",".","A",".","G",".","U",".","S",".">>>>,
    <<"I.A.M.M.", <<"I",".","A",".","M",".","M",".">>>>,
    <<"I.A.P.B.", <<"I",".","A",".","P",".","B",".">>>>,
    <<"I.A.P.P.", <<"I",".","A",".","P",".","P",".">>>>,
    <<"I.C.N.", <<"I",".","C",".","N",".">>>>,
    <<"I.C.R.P.", <<"I",".","C",".","R",".","P",".">>>>,
    <<"I.C.R.U.", <<"I",".","C",".","R",".","U",".">>>>,
    <<"I.C.S.", <<"I",".","C",".","S",".">>>>,
    <<"I.C.U.", <<"I",".","C",".","U",".">>>>,
    <<"I.E.", <<"I",".","E",".">>>>,
    <<"I.H.", <<"I",".","H",".">>>>,
    <<"I.L.A.", <<"I",".","L",".","A",".">>>>,
    <<"I.M.", <<"I",".","M",".">>>>,
    <<"I.M.A.", <<"I",".","M",".","A",".">>>>,
    <<"I.M.V.", <<"I",".","M",".","V",".">>>>,
    <<"I.N.A.", <<"I",".","N",".","A",".">>>>,
    <<"I.P.A.A.", <<"I",".","P",".","A",".","A",".">>>>,
    <<"I.Q.", <<"I",".","Q",".">>>>,
    <<"I.R.I.S.", <<"I",".","R",".","I",".","S",".">>>>,
    <<"I.S.A.", <<"I",".","S",".","A",".">>>>,
    <<"I.S.C.P.", <<"I",".","S",".","C",".","P",".">>>>,
    <<"I.S.G.E.", <<"I",".","S",".","G",".","E",".">>>>,
    <<"I.S.H.", <<"I",".","S",".","H",".">>>>,
    <<"I.S.M.", <<"I",".","S",".","M",".">>>>,
    <<"I.S.O.", <<"I",".","S",".","O",".">>>>,
    <<"I.S.U.", <<"I",".","S",".","U",".">>>>,
    <<"I.T.A.", <<"I",".","T",".","A",".">>>>,
    <<"I.U.", <<"I",".","U",".">>>>,
    <<"I.V.", <<"I",".","V",".">>>>,
    <<"Inpt.", <<"I","n","p","t",".">>>>,
    <<"Jan.", <<"J","a","n",".">>>>,
    <<"Jap.", <<"J","a","p",".">>>>,
    <<"K.A.U.", <<"K",".","A",".","U",".">>>>,
    <<"K.U.B.", <<"K",".","U",".","B",".">>>>,
    <<"L.", <<"L",".">>>>,
    <<"L.A.O.", <<"L",".","A",".","O",".">>>>,
    <<"L.Ch.", <<"L",".","C","h",".">>>>,
    <<"L.D.A.", <<"L",".","D",".","A",".">>>>,
    <<"L.D.S.", <<"L",".","D",".","S",".">>>>,
    <<"L.K.Q.C.P.I.", <<"L",".","K",".","Q",".","C",".","P",".","I",".">>>>,
    <<"L.M.", <<"L",".","M",".">>>>,
    <<"L.M.R.C.P.", <<"L",".","M",".","R",".","C",".","P",".">>>>,
    <<"L.M.S.", <<"L",".","M",".","S",".">>>>,
    <<"L.M.S.S.A.", <<"L",".","M",".","S",".","S",".","A",".">>>>,
    <<"L.P.N.", <<"L",".","P",".","N",".">>>>,
    <<"L.R.C.P.", <<"L",".","R",".","C",".","P",".">>>>,
    <<"L.R.C.S.", <<"L",".","R",".","C",".","S",".">>>>,
    <<"L.R.C.S.E.", <<"L",".","R",".","C",".","S",".","E",".">>>>,
    <<"L.S.A.", <<"L",".","S",".","A",".">>>>,
    <<"L.V.H.", <<"L",".","V",".","H",".">>>>,
    <<"L.V.N.", <<"L",".","V",".","N",".">>>>,
    <<"La.", <<"L","a",".">>>>,
    <<"Lact.", <<"L","a","c","t",".">>>>,
    <<"Lic.", <<"L","i","c",".">>>>,
    <<"Linn.", <<"L","i","n","n",".">>>>,
    <<"Lond.", <<"L","o","n","d",".">>>>,
    <<"M.A.", <<"M",".","A",".">>>>,
    <<"M.A.B.", <<"M",".","A",".","B",".">>>>,
    <<"M.A.C.", <<"M",".","A",".","C",".">>>>,
    <<"M.B.", <<"M",".","B",".">>>>,
    <<"M.C.", <<"M",".","C",".">>>>,
    <<"M.C.S.P.", <<"M",".","C",".","S",".","P",".">>>>,
    <<"M.D.", <<"M",".","D",".">>>>,
    <<"M.D.A.", <<"M",".","D",".","A",".">>>>,
    <<"M.E.D.", <<"M",".","E",".","D",".">>>>,
    <<"M.I.", <<"M",".","I",".">>>>,
    <<"M.I.N.I.", <<"M",".","I",".","N",".","I",".">>>>,
    <<"M.I.T.", <<"M",".","I",".","T",".">>>>,
    <<"M.L.", <<"M",".","L",".">>>>,
    <<"M.O.", <<"M",".","O",".">>>>,
    <<"M.O.H.", <<"M",".","O",".","H",".">>>>,
    <<"M.O.R.C.", <<"M",".","O",".","R",".","C",".">>>>,
    <<"M.P.H.", <<"M",".","P",".","H",".">>>>,
    <<"M.P.U.", <<"M",".","P",".","U",".">>>>,
    <<"M.R.A.", <<"M",".","R",".","A",".">>>>,
    <<"M.R.A.C.P.", <<"M",".","R",".","A",".","C",".","P",".">>>>,
    <<"M.R.C.", <<"M",".","R",".","C",".">>>>,
    <<"M.R.C.P.", <<"M",".","R",".","C",".","P",".">>>>,
    <<"M.R.C.P.E.", <<"M",".","R",".","C",".","P",".","E",".">>>>,
    <<"M.R.C.P.I.", <<"M",".","R",".","C",".","P",".","I",".">>>>,
    <<"M.R.C.S.", <<"M",".","R",".","C",".","S",".">>>>,
    <<"M.R.C.S.E.", <<"M",".","R",".","C",".","S",".","E",".">>>>,
    <<"M.R.C.S.I.", <<"M",".","R",".","C",".","S",".","I",".">>>>,
    <<"M.R.C.V.S.", <<"M",".","R",".","C",".","V",".","S",".">>>>
  >>

Spelling_04 ==
  <<
    <<"M.R.L.", <<"M",".","R",".","L",".">>>>,
    <<"M.S.", <<"M",".","S",".">>>>,
    <<"M.S.N.", <<"M",".","S",".","N",".">>>>,
    <<"M.T.", <<"M",".","T",".">>>>,
    <<"M.V.I.", <<"M",".","V",".","I",".">>>>,
    <<"M.u.", <<"M",".","u",".">>>>,
    <<"MSEd.", <<"M","S","E","d",".">>>>,
    <<"Md.", <<"M","d",".">>>>,
    <<"Merr.", <<"M","e","r","r",".">>>>,
    <<"Mich.", <<"M","i","c","h",".">>>>,
    <<"Mme.", <<"M","m","e",".">>>>,
    <<"Mr.", <<"M","r",".">>>>,
    <<"Mrs.", <<"M","r","s",".">>>>,
    <<"Ms.", <<"M","s",".">>>>,
    <<"N.", <<"N",".">>>>,
    <<"N.A.P.N.E.S.", <<"N",".","A",".","P",".","N",".","E",".","S",".">>>>,
    <<"N.A.S.E.", <<"N",".","A",".","S",".","E",".">>>>,
    <<"N.B.S.", <<"N",".","B",".","S",".">>>>,
    <<"N.C.", <<"N",".","C",".">>>>,
    <<"N.C.M.H.", <<"N",".","C",".","M",".","H",".">>>>,
    <<"N.C.N.", <<"N",".","C",".","N",".">>>>,
    <<"N.D.A.", <<"N",".","D",".","A",".">>>>,
    <<"N.E.M.A.", <<"N",".","E",".","M",".","A",".">>>>,
    <<"N.F.L.P.N.", <<"N",".","F",".","L",".","P",".","N",".">>>>,
    <<"N.H.C.", <<"N",".","H",".","C",".">>>>,
    <<"N.H.I.", <<"N",".","H",".","I",".">>>>,
    <<"N.H.L.I.", <<"N",".","H",".","L",".","I",".">>>>,
    <<"N.H.M.R.C.", <<"N",".","H",".","M",".","R",".","C",".">>>>,
    <<"N.H.S.", <<"N",".","H",".","S",".">>>>,
    <<"N.L.N.", <<"N",".","L",".","N",".">>>>,
    <<"N.M.A.", <<"N",".","M",".","A",".">>>>,
    <<"N.M.S.S.", <<"N",".","M",".","S",".","S",".">>>>,
    <<"N.O.A.", <<"N",".","O",".","A",".">>>>,
    <<"N.O.P.H.N.", <<"N",".","O",".","P",".","H",".","N",".">>>>,
    <<"N.O.T.B.", <<"N",".","O",".","T",".","B",".">>>>,
    <<"N.P.A.", <<"N",".","P",".","A",".">>>>,
    <<"N.R.C.", <<"N",".","R",".","C",".">>>>,
    <<"N.S.A.", <<"N",".","S",".","A",".">>>>,
    <<"N.S.C.C.", <<"N",".","S",".","C",".","C",".">>>>,
    <<"N.S.N.A.", <<"N",".","S",".","N",".","A",".">>>>,
    <<"N.S.P.B.", <<"N",".","S",".","P",".","B",".">>>>,
    <<"N.T.A.", <<"N",".","T",".","A",".">>>>,
    <<"N.T.P.", <<"N",".","T",".","P",".">>>>,
    <<"N.Y.", <<"N",".","Y",".">>>>,
    <<"N.Y.D.", <<"N",".","Y",".","D",".">>>>,
    <<"Nev.", <<"N","e","v",".">>>>,
    <<"Nm.", <<"N","m",".">>>>,
    <<"Nov.", <<"N","o","v",".">>>>,
    <<"Num.", <<"N","u","m",".">>>>,
    <<"O.D.", <<"O",".","D",".">>>>,
    <<"O.K.", <<"O",".","K",".">>>>,
    <<"O.R.", <<"O",".","R",".">>>>,
    <<"O.R.E.F.", <<"O",".","R",".","E",".","F",".">>>>,
    <<"O.R.S.", <<"O",".","R",".","S",".">>>>,
    <<"O.S.A.", <<"O",".","S",".","A",".">>>>,
    <<"O.S.U.K.", <<"O",".","S",".","U",".","K",".">>>>,
    <<"O.U.", <<"O",".","U",".">>>>,
    <<"Ob.", <<"O","b",".">>>>,
    <<"Oct.", <<"O","c","t",".">>>>,
    <<"Oe.", <<"O","e",".">>>>,
    <<"Ont.", <<"O","n","t",".">>>>,
    <<"Ore.", <<"O","r","e",".">>>>,
    <<"Outpt.", <<"O","u","t","p","t",".">>>>,
    <<"P-barb.", <<"P","-","b","a","r","b",".">>>>,
    <<"P.C.M.O.", <<"P",".","C",".","M",".","O",".">>>>,
    <<"P.H.L.S.", <<"P",".","H",".","L",".","S",".">>>>,
    <<"P.M.B.", <<"P",".","M",".","B",".">>>>,
    <<"P.M.E.", <<"P",".","M",".","E",".">>>>,
    <<"P.O.", <<"P",".","O",".">>>>,
    <<"P.P.D.", <<"P",".","P",".","D",".">>>>,
    <<"P.T.", <<"P",".","T",".">>>>,
    <<"P.T.U.", <<"P",".","T",".","U",".">>>>,
    <<"Ph.", <<"P","h",".">>>>,
    <<"Ph.B.", <<"P","h",".","B",".">>>>,
    <<"Ph.D.", <<"P","h",".","D",".">>>>,
    <<"Ph.G.", <<"P","h",".","G",".">>>>,
    <<"PhD.", <<"P","h","D",".">>>>,
    <<"Ps.", <<"P","s",".">>>>,
    <<"Pseud.", <<"P","s","e","u","d",".">>>>,
    <<"R.A.M.C.", <<"R",".","A",".","M",".","C",".">>>>,
    <<"R.B.C.", <<"R",".","B",".","C",".">>>>,
    <<"R.C.M.", <<"R",".","C",".","M",".">>>>,
    <<"R.C.N.", <<"R",".","C",".","N",".">>>>,
    <<"R.C.O.G.", <<"R",".","C",".","O",".","G",".">>>>,
    <<"R.C.P.", <<"R",".","C",".","P",".">>>>,
    <<"R.C.S.", <<"R",".","C",".","S",".">>>>,
    <<"R.C.V.S.", <<"R",".","C",".","V",".","S",".">>>>,
    <<"R.D.", <<"R",".","D",".">>>>,
    <<"R.D.H.", <<"R",".","D",".","H",".">>>>,
    <<"R.E.G.", <<"R",".","E",".","G",".">>>>,
    <<"R.F.A.", <<"R",".","F",".","A",".">>>>,
    <<"R.F.P.", <<"R",".","F",".","P",".">>>>,
    <<"R.G.N.", <<"R",".","G",".","N",".">>>>,
    <<"R.H.", <<"R",".","H",".">>>>,
    <<"R.I.F.", <<"R",".","I",".","F",".">>>>,
    <<"R.M.N.", <<"R",".","M",".","N",".">>>>,
    <<"R.M.O.", <<"R",".","M",".","O",".">>>>,
    <<"R.M.P.", <<"R",".","M",".","P",".">>>>,
    <<"R.N.", <<"R",".","N",".">>>>,
    <<"R.N.M.S.", <<"R",".","N",".","M",".","S",".">>>>
  >>

Spelling_05 ==
  <<
    <<"R.O.A.", <<"R",".","O",".","A",".">>>>,
    <<"R.O.P.", <<"R",".","O",".","P",".">>>>,
    <<"R.R.L.", <<"R",".","R",".","L",".">>>>,
    <<"R.S.A.", <<"R",".","S",".","A",".">>>>,
    <<"R.S.B.", <<"R",".","S",".","B",".">>>>,
    <<"R.S.C.N.", <<"R",".","S",".","C",".","N",".">>>>,
    <<"R.S.M.", <<"R",".","S",".","M",".">>>>,
    <<"R.S.N.A.", <<"R",".","S",".","N",".","A",".">>>>,
    <<"R.S.P.", <<"R",".","S",".","P",".">>>>,
    <<"R.S.T.", <<"R",".","S",".","T",".">>>>,
    <<"R.S.T.M.H.", <<"R",".","S",".","T",".","M",".","H",".">>>>,
    <<"R.T.", <<"R",".","T",".">>>>,
    <<"R.U.", <<"R",".","U",".">>>>,
    <<"R.V.H.", <<"R",".","V",".","H",".">>>>,
    <<"Ras.", <<"R","a","s",".">>>>,
    <<"Rb.", <<"R","b",".">>>>,
    <<"Rba.", <<"R","b","a",".">>>>,
    <<"Rect.", <<"R","e","c","t",".">>>>,
    <<"Ref.", <<"R","e","f",".">>>>,
    <<"S.", <<"S",".">>>>,
    <<"S.-G.", <<"S",".","-","G",".">>>>,
    <<"S.A.", <<"S",".","A",".">>>>,
    <<"S.A.L.", <<"S",".","A",".","L",".">>>>,
    <<"S.C.", <<"S",".","C",".">>>>,
    <<"S.C.M.", <<"S",".","C",".","M",".">>>>,
    <<"S.D.", <<"S",".","D",".">>>>,
    <<"S.E.D.", <<"S",".","E",".","D",".">>>>,
    <<"S.E.E.", <<"S",".","E",".","E",".">>>>,
    <<"S.F.", <<"S",".","F",".">>>>,
    <<"S.G.O.", <<"S",".","G",".","O",".">>>>,
    <<"S.I.D.", <<"S",".","I",".","D",".">>>>,
    <<"S.L.P.", <<"S",".","L",".","P",".">>>>,
    <<"S.L.T.", <<"S",".","L",".","T",".">>>>,
    <<"S.M.O.", <<"S",".","M",".","O",".">>>>,
    <<"S.S.D.", <<"S",".","S",".","D",".">>>>,
    <<"S.T.S.", <<"S",".","T",".","S",".">>>>,
    <<"S.m.", <<"S",".","m",".">>>>,
    <<"Sacch.", <<"S","a","c","c","h",".">>>>,
    <<"Salm.", <<"S","a","l","m",".">>>>,
    <<"Sc.D.", <<"S","c",".","D",".">>>>,
    <<"Sens.", <<"S","e","n","s",".">>>>,
    <<"Sept.", <<"S","e","p","t",".">>>>,
    <<"St.", <<"S","t",".">>>>,
    <<"Str.", <<"S","t","r",".">>>>,
    <<"Strep.", <<"S","t","r","e","p",".">>>>,
    <<"Strept.", <<"S","t","r","e","p","t",".">>>>,
    <<"Subg.", <<"S","u","b","g",".">>>>,
    <<"T.A.T.", <<"T",".","A",".","T",".">>>>,
    <<"T.E.D.", <<"T",".","E",".","D",".">>>>,
    <<"T.P.N.", <<"T",".","P",".","N",".">>>>,
    <<"Tab.", <<"T","a","b",".">>>>,
    <<"Tal.", <<"T","a","l",".">>>>,
    <<"Tb.N.", <<"T","b",".","N",".">>>>,
    <<"Tb.Sp.", <<"T","b",".","S","p",".">>>>,
    <<"Tb.Th.", <<"T","b",".","T","h",".">>>>,
    <<"Tue.", <<"T","u","e",".">>>>,
    <<"Tues.", <<"T","u","e","s",".">>>>,
    <<"U.K.", <<"U",".","K",".">>>>,
    <<"U.S.", <<"U",".","S",".">>>>,
    <<"U.S.A.", <<"U",".","S",".","A",".">>>>,
    <<"U.S.M.H.", <<"U",".","S",".","M",".","H",".">>>>,
    <<"U.S.P.", <<"U",".","S",".","P",".">>>>,
    <<"U.S.P.H.S.", <<"U",".","S",".","P",".","H",".","S",".">>>>,
    <<"U.V.", <<"U",".","V",".">>>>,
    <<"Ungt.", <<"U","n","g","t",".">>>>,
    <<"V.A.", <<"V",".","A",".">>>>,
    <<"V.A.C.", <<"V",".","A",".","C",".">>>>,
    <<"V.D.", <<"V",".","D",".">>>>,
    <<"V.M.D.", <<"V",".","M",".","D",".">>>>,
    <<"V.R.", <<"V",".","R",".">>>>,
    <<"Va.", <<"V","a",".">>>>,
    <<"Vit.", <<"V","i","t",".">>>>,
    <<"W.", <<"W",".">>>>,
    <<"W.R.", <<"W",".","R",".">>>>,
    <<"W.Va.", <<"W",".","V","a",".">>>>,
    <<"Wgt.", <<"W","g","t",".">>>>,
    <<"Wis.", <<"W","i","s",".">>>>,
    <<"a.c.", <<"a",".","c",".">>>>,
    <<"a.m.", <<"a",".","m",".">>>>,
    <<"abbr.", <<"a","b","b","r",".">>>>,
    <<"abdom.", <<"a","b","d","o","m",".">>>>,
    <<"adj.", <<"a","d","j",".">>>>,
    <<"amp.", <<"a","m","p",".">>>>,
    <<"ams.", <<"a","m","s",".">>>>,
    <<"ant.", <<"a","n","t",".">>>>,
    <<"aq.", <<"a","q",".">>>>,
    <<"arb.", <<"a","r","b",".">>>>,
    <<"arg.", <<"a","r","g",".">>>>,
    <<"artif.", <<"a","r","t","i","f",".">>>>,
    <<"asn.", <<"a","s","n",".">>>>,
    <<"asst.", <<"a","s","s","t",".">>>>,
    <<"avg.", <<"a","v","g",".">>>>,
    <<"b.d.s.", <<"b",".","d",".","s",".">>>>,
    <<"b.i.d.", <<"b",".","i",".","d",".">>>>,
    <<"b.p.", <<"b",".","p",".">>>>,
    <<"bilat.", <<"b","i","l","a","t",".">>>>,
    <<"bk.", <<"b","k",".">>>>,
    <<"bldg.", <<"b","l","d","g",".">>>>,
    <<"bol.", <<"b","o","l",".">>>>,
    <<"bull.", <<"b","u","l","l",".">>>>
  >>

Spelling_06 ==
  <<
    <<"c.b.c.", <<"c",".","b",".","c",".">>>>,
    <<"c.p.", <<"c",".","p",".">>>>,
    <<"cal.", <<"c","a","l",".">>>>,
    <<"cap.", <<"c","a","p",".">>>>,
    <<"conc.", <<"c","o","n","c",".">>>>,
    <<"concn.", <<"c","o","n","c","n",".">>>>,
    <<"cont.", <<"c","o","n","t",".">>>>,
    <<"cor.", <<"c","o","r",".">>>>,
    <<"corr.", <<"c","o","r","r",".">>>>,
    <<"cpd.", <<"c","p","d",".">>>>,
    <<"creat.", <<"c","r","e","a","t",".">>>>,
    <<"crit.", <<"c","r","i","t",".">>>>,
    <<"cu.mm.", <<"c","u",".","m","m",".">>>>,
    <<"cx.", <<"c","x",".">>>>,
    <<"cyc.", <<"c","y","c",".">>>>,
    <<"cyl.", <<"c","y","l",".">>>>,
    <<"d.c.", <<"d",".","c",".">>>>,
    <<"d.p.", <<"d",".","p",".">>>>,
    <<"d.p.m.", <<"d",".","p",".","m",".">>>>,
    <<"d.v.", <<"d",".","v",".">>>>,
    <<"d.w.", <<"d",".","w",".">>>>,
    <<"decub.", <<"d","e","c","u","b",".">>>>,
    <<"deg.", <<"d","e","g",".">>>>,
    <<"det.", <<"d","e","t",".">>>>,
    <<"diam.", <<"d","i","a","m",".">>>>,
    <<"dir.", <<"d","i","r",".">>>>,
    <<"dn.", <<"d","n",".">>>>,
    <<"doc.", <<"d","o","c",".">>>>,
    <<"dp.", <<"d","p",".">>>>,
    <<"dr.", <<"d","r",".">>>>,
    <<"e.m.p.", <<"e",".","m",".","p",".">>>>,
    <<"elev.", <<"e","l","e","v",".">>>>,
    <<"elix.", <<"e","l","i","x",".">>>>,
    <<"em.", <<"e","m",".">>>>,
    <<"emuls.", <<"e","m","u","l","s",".">>>>,
    <<"endocrinol.", <<"e","n","d","o","c","r","i","n","o","l",".">>>>,
    <<"er.", <<"e","r",".">>>>,
    <<"exper.", <<"e","x","p","e","r",".">>>>,
    <<"expt.", <<"e","x","p","t",".">>>>,
    <<"f.b.", <<"f",".","b",".">>>>,
    <<"f.p.", <<"f",".","p",".">>>>,
    <<"fe.", <<"f","e",".">>>>,
    <<"fig.", <<"f","i","g",".">>>>,
    <<"fl.", <<"f","l",".">>>>,
    <<"fld.", <<"f","l","d",".">>>>,
    <<"ft.", <<"f","t",".">>>>,
    <<"g-cal.", <<"g","-","c","a","l",".">>>>,
    <<"gl.", <<"g","l",".">>>>,
    <<"glu.", <<"g","l","u",".">>>>,
    <<"gly.", <<"g","l","y",".">>>>,
    <<"gm.", <<"g","m",".">>>>,
    <<"gr.", <<"g","r",".">>>>,
    <<"h.p.f.", <<"h",".","p",".","f",".">>>>,
    <<"h.s.", <<"h",".","s",".">>>>,
    <<"halluc.", <<"h","a","l","l","u","c",".">>>>,
    <<"hct.", <<"h","c","t",".">>>>,
    <<"hun.", <<"h","u","n",".">>>>,
    <<"hyp.", <<"h","y","p",".">>>>,
    <<"i.c.", <<"i",".","c",".">>>>,
    <<"i.d.", <<"i",".","d",".">>>>,
    <<"i.p.", <<"i",".","p",".">>>>,
    <<"i.r.", <<"i",".","r",".">>>>,
    <<"i.s.", <<"i",".","s",".">>>>,
    <<"i.th.", <<"i",".","t","h",".">>>>,
    <<"i.vag.", <<"i",".","v","a","g",".">>>>,
    <<"ib.", <<"i","b",".">>>>,
    <<"ibid.", <<"i","b","i","d",".">>>>,
    <<"inj.", <<"i","n","j",".">>>>,
    <<"ino.", <<"i","n","o",".">>>>,
    <<"instr.", <<"i","n","s","t","r",".">>>>,
    <<"inv.", <<"i","n","v",".">>>>,
    <<"irreg.", <<"i","r","r","e","g",".">>>>,
    <<"jour.", <<"j","o","u","r",".">>>>,
    <<"jr.", <<"j","r",".">>>>,
    <<"kc.", <<"k","c",".">>>>,
    <<"kg.-cal.", <<"k","g",".","-","c","a","l",".">>>>,
    <<"l.a.r.", <<"l",".","a",".","r",".">>>>,
    <<"l.p.n.", <<"l",".","p",".","n",".">>>>,
    <<"l.w.", <<"l",".","w",".">>>>,
    <<"lam.", <<"l","a","m",".">>>>,
    <<"lar.", <<"l","a","r",".">>>>,
    <<"lb.", <<"l","b",".">>>>,
    <<"lim.", <<"l","i","m",".">>>>,
    <<"lin.", <<"l","i","n",".">>>>,
    <<"liq.", <<"l","i","q",".">>>>,
    <<"lo.", <<"l","o",".">>>>,
    <<"lot.", <<"l","o","t",".">>>>,
    <<"lys.", <<"l","y","s",".">>>>,
    <<"m.e.p.c.", <<"m",".","e",".","p",".","c",".">>>>,
    <<"mEq.", <<"m","E","q",".">>>>,
    <<"mac.", <<"m","a","c",".">>>>,
    <<"mech.", <<"m","e","c","h",".">>>>,
    <<"meg.", <<"m","e","g",".">>>>,
    <<"meq.", <<"m","e","q",".">>>>,
    <<"mev.", <<"m","e","v",".">>>>,
    <<"mi.", <<"m","i",".">>>>,
    <<"mil.", <<"m","i","l",".">>>>,
    <<"min.", <<"m","i","n",".">>>>,
    <<"misc.", <<"m","i","s","c",".">>>>,
    <<"mist.", <<"m","i","s","t",".">>>>
  >>

Spelling_07 ==
  <<
    <<"muc.", <<"m","u","c",".">>>>,
    <<"n.", <<"n",".">>>>,
    <<"n.c.a.", <<"n",".","c",".","a",".">>>>,
    <<"n.m.", <<"n",".","m",".">>>>,
    <<"n.u.", <<"n",".","u",".">>>>,
    <<"nU.", <<"n","U",".">>>>,
    <<"nat.", <<"n","a","t",".">>>>,
    <<"neo.", <<"n","e","o",".">>>>,
    <<"neu.", <<"n","e","u",".">>>>,
    <<"nm.", <<"n","m",".">>>>,
    <<"noct.", <<"n","o","c","t",".">>>>,
    <<"o.d.", <<"o",".","d",".">>>>,
    <<"o.h.", <<"o",".","h",".">>>>,
    <<"o.m.", <<"o",".","m",".">>>>,
    <<"o.n.", <<"o",".","n",".">>>>,
    <<"o.s.", <<"o",".","s",".">>>>,
    <<"o.u.", <<"o",".","u",".">>>>,
    <<"oto.", <<"o","t","o",".">>>>,
    <<"oz.", <<"o","z",".">>>>,
    <<"p.a.", <<"p",".","a",".">>>>,
    <<"p.c.", <<"p",".","c",".">>>>,
    <<"p.e.", <<"p",".","e",".">>>>,
    <<"p.i.d.", <<"p",".","i",".","d",".">>>>,
    <<"p.m.", <<"p",".","m",".">>>>,
    <<"p.o.", <<"p",".","o",".">>>>,
    <<"p.p.d.", <<"p",".","p",".","d",".">>>>,
    <<"p.r.", <<"p",".","r",".">>>>,
    <<"p.r.n.", <<"p",".","r",".","n",".">>>>,
    <<"p.s.p.", <<"p",".","s",".","p",".">>>>,
    <<"p.t.", <<"p",".","t",".">>>>,
    <<"p.v.", <<"p",".","v",".">>>>,
    <<"paediatr.", <<"p","a","e","d","i","a","t","r",".">>>>,
    <<"pediatr.", <<"p","e","d","i","a","t","r",".">>>>,
    <<"peri.", <<"p","e","r","i",".">>>>,
    <<"pkwy.", <<"p","k","w","y",".">>>>,
    <<"post-part.", <<"p","o","s","t","-","p","a","r","t",".">>>>,
    <<"postpart.", <<"p","o","s","t","p","a","r","t",".">>>>,
    <<"ppg.", <<"p","p","g",".">>>>,
    <<"ppt.", <<"p","p","t",".">>>>,
    <<"prob.", <<"p","r","o","b",".">>>>,
    <<"prof.", <<"p","r","o","f",".">>>>,
    <<"ps.p.", <<"p","s",".","p",".">>>>,
    <<"pulv.", <<"p","u","l","v",".">>>>,
    <<"pur.", <<"p","u","r",".">>>>,
    <<"pv.", <<"p","v",".">>>>,
    <<"q.", <<"q",".">>>>,
    <<"q.a.d.", <<"q",".","a",".","d",".">>>>,
    <<"q.a.m.", <<"q",".","a",".","m",".">>>>,
    <<"q.d.", <<"q",".","d",".">>>>,
    <<"q.d.s.", <<"q",".","d",".","s",".">>>>,
    <<"q.h.", <<"q",".","h",".">>>>,
    <<"q.h.s.", <<"q",".","h",".","s",".">>>>,
    <<"q.i.d.", <<"q",".","i",".","d",".">>>>,
    <<"q.o.d.", <<"q",".","o",".","d",".">>>>,
    <<"q.p.m.", <<"q",".","p",".","m",".">>>>,
    <<"q.s.", <<"q",".","s",".">>>>,
    <<"q.v.", <<"q",".","v",".">>>>,
    <<"r.b.c.", <<"r",".","b",".","c",".">>>>,
    <<"r.h.", <<"r",".","h",".">>>>,
    <<"r.m.s.d.", <<"r",".","m",".","s",".","d",".">>>>,
    <<"ra.", <<"r","a",".">>>>,
    <<"ras.", <<"r","a","s",".">>>>,
    <<"rec.", <<"r","e","c",".">>>>,
    <<"rect.", <<"r","e","c","t",".">>>>,
    <<"ref.", <<"r","e","f",".">>>>,
    <<"reg.", <<"r","e","g",".">>>>,
    <<"rehab.", <<"r","e","h","a","b",".">>>>,
    <<"rep.", <<"r","e","p",".">>>>,
    <<"s.", <<"s",".">>>>,
    <<"s.c.", <<"s",".","c",".">>>>,
    <<"s.e.e.", <<"s",".","e",".","e",".">>>>,
    <<"s.l.", <<"s",".","l",".">>>>,
    <<"s.o.s.", <<"s",".","o",".","s",".">>>>,
    <<"s.s.", <<"s",".","s",".">>>>,
    <<"satd.", <<"s","a","t","d",".">>>>,
    <<"scr.", <<"s","c","r",".">>>>,
    <<"sect.", <<"s","e","c","t",".">>>>,
    <<"sed.", <<"s","e","d",".">>>>,
    <<"sens.", <<"s","e","n","s",".">>>>,
    <<"sep.", <<"s","e","p",".">>>>,
    <<"shldr.", <<"s","h","l","d","r",".">>>>,
    <<"sl.", <<"s","l",".">>>>,
    <<"slt.", <<"s","l","t",".">>>>,
    <<"somat.", <<"s","o","m","a","t",".">>>>,
    <<"sp.", <<"s","p",".">>>>,
    <<"sph.", <<"s","p","h",".">>>>,
    <<"spp.", <<"s","p","p",".">>>>,
    <<"sq.", <<"s","q",".">>>>,
    <<"sr.", <<"s","r",".">>>>,
    <<"ss.", <<"s","s",".">>>>,
    <<"ssp.", <<"s","s","p",".">>>>,
    <<"subfam.", <<"s","u","b","f","a","m",".">>>>,
    <<"subg.", <<"s","u","b","g",".">>>>,
    <<"subgen.", <<"s","u","b","g","e","n",".">>>>,
    <<"subj.", <<"s","u","b","j",".">>>>,
    <<"subsect.", <<"s","u","b","s","e","c","t",".">>>>,
    <<"subsp.", <<"s","u","b","s","p",".">>>>,
    <<"supp.", <<"s","u","p","p",".">>>>,
    <<"sv.", <<"s","v",".">>>>,
    <<"syr.", <<"s","y","r",".">>>>
  >>

Spelling_08 ==
  <<
    <<"t.d.s.", <<"t",".","d",".","s",".">>>>,
    <<"t.i.d.", <<"t",".","i",".","d",".">>>>,
    <<"t.i.w.", <<"t",".","i",".","w",".">>>>,
    <<"t.p.n.", <<"t",".","p",".","n",".">>>>,
    <<"tab.", <<"t","a","b",".">>>>,
    <<"tal.", <<"t","a","l",".">>>>,
    <<"tbsp.", <<"t","b","s","p",".">>>>,
    <<"tens.", <<"t","e","n","s",".">>>>,
    <<"theor.", <<"t","h","e","o","r",".">>>>,
    <<"thromb.", <<"t","h","r","o","m","b",".">>>>,
    <<"tinc.", <<"t","i","n","c",".">>>>,
    <<"tinct.", <<"t","i","n","c","t",".">>>>,
    <<"top.", <<"t","o","p",".">>>>,
    <<"u.d.", <<"u",".","d",".">>>>,
    <<"u.v.", <<"u",".","v",".">>>>,
    <<"ung.", <<"u","n","g",".">>>>,
    <<"v.", <<"v",".">>>>,
    <<"v.r.", <<"v",".","r",".">>>>,
    <<"vac.", <<"v","a","c",".">>>>,
    <<"vd.", <<"v","d",".">>>>,
    <<"vit.", <<"v","i","t",".">>>>,
    <<"viz.", <<"v","i","z",".">>>>,
    <<"vol.", <<"v","o","l",".">>>>,
    <<"w.", <<"w",".">>>>,
    <<"wgt.", <<"w","g","t",".">>>>,
    <<"wt.", <<"w","t",".">>>>,
    <<"yd.", <<"y","d",".">>>>,
    <<"yr.", <<"y","r",".">>>>,
    <<"zool.", <<"z","o","o","l",".">>>>,
    <<"'s", <<"'","s">>>>,
    <<"&amp;", <<"&","a","m","p",";">>>>,
    <<"&gt;", <<"&","g","t",";">>>>,
    <<"&lt;", <<"&","l","t",";">>>>,
    <<"+/-", <<"+","/","-">>>>,
    <<"...", <<".",".",".">>>>,
    <<"0.25%", <<"0",".","2","5","%">>>>,
    <<"0.50%", <<"0",".","5","0","%">>>>,
    <<"0.65%", <<"0",".","6","5","%">>>>,
    <<"0.75%", <<"0",".","7","5","%">>>>,
    <<"00:00:00.0", <<"0","0",":","0","0",":","0","0",".","0">>>>,
    <<"6h.p.r.n.", <<"6","h",".","p",".","r",".","n",".">>>>,
    <<"A.", <<"A",".">>>>,
    <<"A.FIB", <<"A",".","F","I","B">>>>,
    <<"A.Fib", <<"A",".","F","i","b">>>>,
    <<"A.fib", <<"A",".","f","i","b">>>>,
    <<"a.fib", <<"a",".","f","i","b">>>>,
    <<"A/P", <<"A","/","P">>>>,
    <<"AMOXICIL...", <<"A","M","O","X","I","C","I","L",".",".",".">>>>,
    <<"B.", <<"B",".">>>>,
    <<"B.I.", <<"B",".","I",".">>>>,
    <<"B.I.D.", <<"B",".","I",".","D",".">>>>,
    <<"Bilat.", <<"B","i","l","a","t",".">>>>,
    <<"c.b.i.d.", <<"c",".","b",".","i",".","d",".">>>>,
    <<"c.q.1h.p.r.n.", <<"c",".","q",".","1","h",".","p",".","r",".","n",".">>>>,
    <<"C.Diff", <<"C",".","D","i","f","f">>>>,
    <<"C.diff", <<"C",".","d","i","f","f">>>>,
    <<"C.difficile", <<"C",".","d","i","f","f","i","c","i","l","e">>>>,
    <<"C/W", <<"C","/","W">>>>,
    <<"D/C", <<"D","/","C">>>>,
    <<"D/C'D", <<"D","/","C","'","D">>>>,
    <<"D/c'd", <<"D","/","c","'","d">>>>,
    <<"D/w", <<"D","/","w">>>>,
    <<"DR.", <<"D","R",".">>>>,
    <<"E.", <<"E",".">>>>,
    <<"E.C.", <<"E",".","C",".">>>>,
    <<"E.COLI", <<"E",".","C","O","L","I">>>>,
    <<"E.Coli", <<"E",".","C","o","l","i">>>>,
    <<"E.G.", <<"E",".","G",".">>>>,
    <<"E.coli", <<"E",".","c","o","l","i">>>>,
    <<"F/U", <<"F","/","U">>>>,
    <<"G.", <<"G",".">>>>,
    <<"H.", <<"H",".">>>>,
    <<"H/O", <<"H","/","O">>>>,
    <<"I.", <<"I",".">>>>,
    <<"IMMED.", <<"I","M","M","E","D",".">>>>,
    <<"J.", <<"J",".">>>>,
    <<"Jr.", <<"J","r",".">>>>,
    <<"K.", <<"K",".">>>>,
    <<"M.", <<"M",".">>>>,
    <<"M.B.B.S.", <<"M",".","B",".","B",".","S",".">>>>,
    <<"M.S.C.", <<"M",".","S",".","C",".">>>>,
    <<"Misc.", <<"M","i","s","c",".">>>>,
    <<"No.1", <<"N","o",".","1">>>>,
    <<"No.2", <<"N","o",".","2">>>>,
    <<"O.", <<"O",".">>>>,
    <<"P.", <<"P",".">>>>,
    <<"P.A.", <<"P",".","A",".">>>>,
    <<"PH.D.", <<"P","H",".","D",".">>>>,
    <<"PULM.", <<"P","U","L","M",".">>>>,
    <<"Pt.", <<"P","t",".">>>>,
    <<"Q.", <<"Q",".">>>>,
    <<"R.", <<"R",".">>>>,
    <<"R/o'd", <<"R","/","o","'","d">>>>,
    <<"REL.", <<"R","E","L",".">>>>,
    <<"RESP.", <<"R","E","S","P",".">>>>,
    <<"Rd.", <<"R","d",".">>>>,
    <<"S.O.A.R.", <<"S",".","O",".","A",".","R",".">>>>,
    <<"SUSP.", <<"S","U","S","P",".">>>>,
    <<"SUST.", <<"S","U","S","T",".">>>>,
    <<"Ste.", <<"S","t","e",".">>>>
  >>

Spelling_09 ==
  <<
    <<"T.", <<"T",".">>>>,
    <<"TEMP.", <<"T","E","M","P",".">>>>,
    <<"TERM", <<"T","E","R","M">>>>,
    <<"Tel.", <<"T","e","l",".">>>>,
    <<"U.", <<"U",".">>>>,
    <<"U/S", <<"U","/","S">>>>,
    <<"V.", <<"V",".">>>>,
    <<"VIT.", <<"V","I","T",".">>>>,
    <<"X.", <<"X",".">>>>,
    <<"Y.", <<"Y",".">>>>,
    <<"Z.", <<"Z",".">>>>,
    <<"a.", <<"a",".">>>>,
    <<"b.", <<"b",".">>>>,
    <<"c.", <<"c",".">>>>,
    <<"c/o", <<"c","/","o">>>>,
    <<"c/w", <<"c","/","w">>>>,
    <<"d/c", <<"d","/","c">>>>,
    <<"d/c'd", <<"d","/","c","'","d">>>>,
    <<"d/c'ed", <<"d","/","c","'","e","d">>>>,
    <<"d/ced", <<"d","/","c","e","d">>>>,
    <<"d/t", <<"d","/","t">>>>,
    <<"dc.", <<"d","c",".">>>>,
    <<"e.", <<"e",".">>>>,
    <<"e.coli", <<"e",".","c","o","l","i">>>>,
    <<"e.g.", <<"e",".","g",".">>>>,
    <<"etc.", <<"e","t","c",".">>>>,
    <<"f/u", <<"f","/","u">>>>,
    <<"follow-up", <<"f","o","l","l","o","w","-","u","p">>>>,
    <<"h.", <<"h",".">>>>,
    <<"h/o", <<"h","/","o">>>>,
    <<"i.e.", <<"i",".","e",".">>>>,
    <<"incr.", <<"i","n","c","r",".">>>>,
    <<"l.", <<"l",".">>>>,
    <<"lbs.", <<"l","b","s",".">>>>,
    <<"mr.", <<"m","r",".">>>>,
    <<"mrs.", <<"m","r","s",".">>>>,
    <<"ms.", <<"m","s",".">>>>,
    <<"n.p.o.", <<"n",".","p",".","o",".">>>>,
    <<"p.g.", <<"p",".","g",".">>>>,
    <<"p.i.q.4h", <<"p",".","i",".","q",".","4","h">>>>,
    <<"p.o.q.4h", <<"p",".","o",".","q",".","4","h">>>>,
    <<"p.o./p.g.", <<"p",".","o",".","/","p",".","g",".">>>>,
    <<"p.o.b.i.d.", <<"p",".","o",".","b",".","i",".","d",".">>>>,
    <<"p.o.q.", <<"p",".","o",".","q",".">>>>,
    <<"p.o.q.a.m.", <<"p",".","o",".","q",".","a",".","m",".">>>>,
    <<"p.o.q.d.", <<"p",".","o",".","q",".","d",".">>>>,
    <<"p.o.q.d", <<"p",".","o",".","q",".","d">>>>,
    <<"p.o.q.p.m.", <<"p",".","o",".","q",".","p",".","m",".">>>>,
    <<"pt.", <<"p","t",".">>>>,
    <<"pulm.", <<"p","u","l","m",".">>>>,
    <<"q.10h.", <<"q",".","1","0","h",".">>>>,
    <<"q.11h.", <<"q",".","1","1","h",".">>>>,
    <<"q.12h.", <<"q",".","1","2","h",".">>>>,
    <<"q.13h.", <<"q",".","1","3","h",".">>>>,
    <<"q.14h.", <<"q",".","1","4","h",".">>>>,
    <<"q.15h.", <<"q",".","1","5","h",".">>>>,
    <<"q.16h.", <<"q",".","1","6","h",".">>>>,
    <<"q.1h.", <<"q",".","1","h",".">>>>,
    <<"q.24", <<"q",".","2","4">>>>,
    <<"q.24h", <<"q",".","2","4","h">>>>,
    <<"q.24h.", <<"q",".","2","4","h",".">>>>,
    <<"q.2h.", <<"q",".","2","h",".">>>>,
    <<"q.3h.", <<"q",".","3","h",".">>>>,
    <<"q.4 h.", <<"q",".","4"," ","h",".">>>>,
    <<"q.4-6h", <<"q",".","4","-","6","h">>>>,
    <<"q.48", <<"q",".","4","8">>>>,
    <<"q.4h.", <<"q",".","4","h",".">>>>,
    <<"q.4.h.", <<"q",".","4",".","h",".">>>>,
    <<"q.5h.", <<"q",".","5","h",".">>>>,
    <<"q.5.h.", <<"q",".","5",".","h",".">>>>,
    <<"q.6h.", <<"q",".","6","h",".">>>>,
    <<"q.6.h.", <<"q",".","6",".","h",".">>>>,
    <<"q.7h.", <<"q",".","7","h",".">>>>,
    <<"q.7.h.", <<"q",".","7",".","h",".">>>>,
    <<"q.8h.", <<"q",".","8","h",".">>>>,
    <<"q.8.h.", <<"q",".","8",".","h",".">>>>,
    <<"q.9h.", <<"q",".","9","h",".">>>>,
    <<"q.9.h.", <<"q",".","9",".","h",".">>>>,
    <<"q.a.c.", <<"q",".","a",".","c",".">>>>,
    <<"q.day", <<"q",".","d","a","y">>>>,
    <<"q.eight", <<"q",".","e","i","g","h","t">>>>,
    <<"q.five", <<"q",".","f","i","v","e">>>>,
    <<"q.four", <<"q",".","f","o","u","r">>>>,
    <<"q.nine", <<"q",".","n","i","n","e">>>>,
    <<"q.one", <<"q",".","o","n","e">>>>,
    <<"q.seven", <<"q",".","s","e","v","e","n">>>>,
    <<"q.six", <<"q",".","s","i","x">>>>,
    <<"q.three", <<"q",".","t","h","r","e","e">>>>,
    <<"q.two", <<"q",".","t","w","o">>>>,
    <<"r.", <<"r",".">>>>,
    <<"r/o", <<"r","/","o">>>>,
    <<"r/r/w", <<"r","/","r","/","w">>>>,
    <<"resp.", <<"r","e","s","p",".">>>>,
    <<"s.c.b.i.d.", <<"s",".","c",".","b",".","i",".","d",".">>>>,
    <<"s.c.q.1h.p.r.n", <<"s",".","c",".","q",".","1","h",".","p",".","r",".","n">>>>,
    <<"s/p", <<"s","/","p">>>>,
    <<"S/P", <<"S","/","P">>>>,
    <<"sat.", <<"s","a","t",".">>>>,
    <<"tel.", <<"t","e","l",".">>>>,
    <<"temp.", <<"t","e","m","p",".">>>>
  >>

Spelling_10 ==
  <<
    <<"vs.", <<"v","s",".">>>>,
    <<"w/", <<"w","/">>>>,
    <<"W/O", <<"W","/","O">>>>,
    <<"x-ray", <<"x","-","r","a","y">>>>,
    <<"y/o", <<"y","/","o">>>>,
    <<"y.o", <<"y",".","o">>>>,
    <<"y.o.", <<"y",".","o",".">>>>
  >>

\* the string literals of special_cases, each with its characters
Spelling ==
  Spelling_01 \o Spelling_02 \o Spelling_03 \o Spelling_04 \o Spelling_05 \o Spelling_06 \o Spelling_07 \o Spelling_08 \o Spelling_09 \o Spelling_10

\* special_cases with a typing slip in its first entry: the ORTH value lacks
\* the final period of the term
special_cases_typo ==
  [special_cases_01 \o special_cases_02 \o special_cases_03 \o special_cases_04 \o
   special_cases_05 \o special_cases_06 \o special_cases_07 \o special_cases_08 \o
   special_cases_09 \o special_cases_10
     EXCEPT ![1] = <<"A.A.A.", <<[ORTH |-> "A.A.A"]>>>>]

\* special_cases with its second "d/c'd" entry (position 834) giving another
\* instruction than the first: split before the apostrophe
special_cases_conflict ==
  [special_cases_01 \o special_cases_02 \o special_cases_03 \o special_cases_04 \o
   special_cases_05 \o special_cases_06 \o special_cases_07 \o special_cases_08 \o
   special_cases_09 \o special_cases_10
     EXCEPT ![834] = <<"d/c'd", <<[ORTH |-> "d/c"], [ORTH |-> "'d"]>>>>]

\* tokenizer.py lines 17-947: the literal the module assigns to special_cases
special_cases_list ==
  special_cases_01 \o special_cases_02 \o special_cases_03 \o special_cases_04 \o
  special_cases_05 \o special_cases_06 \o special_cases_07 \o special_cases_08 \o
  special_cases_09 \o special_cases_10

\* the characters of a string literal of special_cases
Chars ==
  [s \in {Spelling[i][1] : i \in 1..Len(Spelling)} |->
     Spelling[CHOOSE i \in 1..Len(Spelling) : Spelling[i][1] = s][2]]

\* the string literal of special_cases that has the given characters
Literal ==
  [c \in {Spelling[i][2] : i \in 1..Len(Spelling)} |->
     Spelling[CHOOSE i \in 1..Len(Spelling) : Spelling[i][2] = c][1]]

(***************************************************************************)
(* tokenizer.py: the patterns                                              *)
(***************************************************************************)

D == Cls(Digits)

\* build_token_match_rgx, include_rgx (lines 959-963), joined with "|"
include_rgx ==
  Alt(<<
    \* ^[(][0-9]
    Cat(<<Bol, Ch("("), D>>),
    \* [/][0-9]+[,]$
    Cat(<<Ch("/"), Plus(D), Ch(","), Eol>>),
    \* [0-9]+[/][0-9]+[.,]$
    Cat(<<Plus(D), Ch("/"), Plus(D), Cls({".", ","}), Eol>>)
  >>)

\* characters of the URL pattern's alternatives (line 980)
UrlChars ==
  Letters \cup Digits \cup Range("$", "_") \cup {"@", ".", "&", "+"}
  \cup {"!", "*", "(", ")", ",", " "}

HexChars == Digits \cup Range("a", "f") \cup Range("A", "F")

\* build_token_match_rgx, exclude_rgx (lines 966-986), joined with "|".  The
\* literals of lines 974 and 975 have no comma between them, so Python
\* concatenates them into one pattern.
exclude_rgx ==
  Alt(<<
    \* ^[0-9]{1,3}[.][0-9]{1,2}[/][0-9]{1,3}[.][0-9]{1,2}$
    Cat(<<Bol, Rep(D, 1, 3), Ch("."), Rep(D, 1, 2), Ch("/"),
          Rep(D, 1, 3), Ch("."), Rep(D, 1, 2), Eol>>),
    \* ^[-]*[0-9]{1,3}[.][0-9]{1,4}$
    Cat(<<Bol, Star(Ch("-")), Rep(D, 1, 3), Ch("."), Rep(D, 1, 4), Eol>>),
    \* ^([0-9]{3}[.]){2}[0-9]{4}$
    Cat(<<Bol, Rep(Cat(<<Rep(D, 3, 3), Ch(".")>>), 2, 2), Rep(D, 4, 4), Eol>>),
    \* ^[A-Z]*[0-9]+[.][0-9A-Z]+$
    Cat(<<Bol, Star(Cls(Upper)), Plus(D), Ch("."), Plus(Cls(Digits \cup Upper)), Eol>>),
    \* ^[0-9]+[.][0-9]+([%]|mm|cm|mg|ml)$
    Cat(<<Bol, Plus(D), Ch("."), Plus(D),
          Alt(<<Ch("%"), Lit(<<"m", "m">>), Lit(<<"c", "m">>),
                Lit(<<"m", "g">>), Lit(<<"m", "l">>)>>), Eol>>),
    \* [0-9]+[.][0-9]+[-][0-9]+[.][0-9]+
    Cat(<<Plus(D), Ch("."), Plus(D), Ch("-"), Plus(D), Ch("."), Plus(D)>>),
    \* ^[0-9]+[.][0-9]+$
    Cat(<<Bol, Plus(D), Ch("."), Plus(D), Eol>>),
    \* ^([A-Z][\.]|[1-9][0-9]*[\.)])$[0-9]+[/][0-9]+
    Cat(<<Bol,
          Alt(<<Cat(<<Cls(Upper), Ch(".")>>),
                Cat(<<Cls(Range("1", "9")), Star(D), Cls({".", ")"})>>)>>),
          Eol, Plus(D), Ch("/"), Plus(D)>>),
    \* ([01][0-9]/[0-3][0-9])
    Cat(<<Cls({"0", "1"}), D, Ch("/"), Cls(Range("0", "3")), D>>),
    \* [0-1]{0,1}[0-9][/]([3][01]|[12][0-9]|[0-9])[/]((19|20)[0-9]{2}|[0-3][0-9])\b
    Cat(<<Rep(Cls(Range("0", "1")), 0, 1), D, Ch("/"),
          Alt(<<Cat(<<Ch("3"), Cls({"0", "1"})>>),
                Cat(<<Cls({"1", "2"}), D>>),
                D>>),
          Ch("/"),
          Alt(<<Cat(<<Alt(<<Lit(<<"1", "9">>), Lit(<<"2", "0">>)>>), Rep(D, 2, 2)>>),
                Cat(<<Cls(Range("0", "3")), D>>)>>),
          Wb>>),
    \* http[s]?://(?:[a-zA-Z]|[0-9]|[$-_@.&+]|[!*\(\), ]|(?:%[0-9a-fA-F][0-9a-fA-F]))+
    Cat(<<Lit(<<"h", "t", "t", "p">>), Opt(Ch("s")), Lit(<<":", "/", "/">>),
          Plus(Alt(<<Cls(UrlChars),
                     Cat(<<Ch("%"), Cls(HexChars), Cls(HexChars)>>)>>))>>),
    \* ^([0-9]{1,2}|[A-Z])[).]$
    Cat(<<Bol, Alt(<<Rep(D, 1, 2), Cls(Upper)>>), Cls({")", "."}), Eol>>),
    \* [0-2][0-9][:][0-9]{2}[:][0-9]{2}[.][0-9]
    Cat(<<Cls(Range("0", "2")), D, Ch(":"), Rep(D, 2, 2), Ch(":"), Rep(D, 2, 2),
          Ch("."), D>>),
    \* [A-Za-z()]+[-<]{1,2}[0-9]{1,2}[.][0-9]{1,2}[*#]{0,2}
    Cat(<<Plus(Cls(Letters \cup {"(", ")"})), Rep(Cls({"-", "<"}), 1, 2),
          Rep(D, 1, 2), Ch("."), Rep(D, 1, 2), Rep(Cls({"*", "#"}), 0, 2)>>),
    \* ([0-9]+[-][0-9]+[-][0-9]+)|([0-9]+[-][0-9]+)
    Alt(<<Cat(<<Plus(D), Ch("-"), Plus(D), Ch("-"), Plus(D)>>),
          Cat(<<Plus(D), Ch("-"), Plus(D)>>)>>)
  >>)

\* build_token_match_rgx (lines 950-988): the two compiled patterns
build_token_match_rgx == <<include_rgx, exclude_rgx>>

\* token_match (lines 991-996)
token_match(s, inc, exc) ==
  IF Search(inc, s) THEN FALSE
  ELSE IF Search(exc, s) THEN TRUE
  ELSE FALSE

\* the character class of prefix_re, line 1008: [\["'()*+-?/<>#%], in which
\* +-? is the range from "+" to "?"
PrefixClass ==
  {"[", "\"", "'", "(", ")", "*"} \cup Range("+", "?") \cup {"/", "<", ">", "#", "%"}

\* line 1008: ^([\["'()*+-?/<>#%]+|[><][=])+
prefix_re ==
  Cat(<<Bol, Plus(Alt(<<Plus(Cls(PrefixClass)),
                        Cat(<<Cls({">", "<"}), Ch("=")>>)>>))>>)

\* line 1009: ([\]"'),-.:;*]|'s)$ , in which ,-. is the range from "," to "."
suffix_re ==
  Cat(<<Alt(<<Cls({"]", "\"", "'", ")"} \cup Range(",", ".") \cup {":", ";", "*"}),
              Lit(<<"'", "s">>)>>), Eol>>)

\* line 1010: [%(),-./;=?]+
infix_re ==
  Plus(Cls({"%", "(", ")"} \cup Range(",", ".") \cup {"/", ";", "=", "?"}))

\* prefix_re.search(s): the end offset of the match, -1 for None.  Every
\* character either alternative accepts is in PrefixClass, so the greedy match
\* is the longest one.
prefix_search(s) ==
  IF Ends(prefix_re, s, 0) = {} THEN -1 ELSE SetMax(Ends(prefix_re, s, 0))

\* suffix_re.search(s): the start offset of the match, -1 for None
suffix_search(s) ==
  IF Search(suffix_re, s) THEN SearchStart(suffix_re, s) ELSE -1

RECURSIVE FindIter(_, _, _)
\* pattern.finditer(s) from offset pos: the <<start, end>> of the successive
\* leftmost greedy non-empty matches
FindIter(r, s, pos) ==
  LET starts == {i \in pos..Len(s) : Ends(r, s, i) \ {i} # {}}
  IN IF starts = {} THEN <<>>
     ELSE LET i == SetMin(starts)
              e == SetMax(Ends(r, s, i))
          IN <<<<i, e>>>> \o FindIter(r, s, e)

infix_finditer(s) == FindIter(infix_re, s, 0)

(***************************************************************************)
(* spacy.tokenizer.Tokenizer as ct_tokenizer configures it: the algorithm  *)
(* of the library's documentation (whitespace split, then per substring:   *)
(* exception lookup, prefix and suffix peeling, token_match, infixes).     *)
(***************************************************************************)

\* An empty mapping (a Python dict with no keys).
EmptyDict == [t \in {} |-> <<>>]

\* Tokenizer.add_special_case(term, attrib): the table maps term to attrib,
\* replacing what it held for term.
add_special_case(table, term, attrib) ==
  [t \in (DOMAIN table) \cup {term} |-> IF t = term THEN attrib ELSE table[t]]

\* the token texts an exception's attribute list describes
Orths(attrib) == [j \in 1..Len(attrib) |-> Chars[attrib[j].ORTH]]

\* substring in special_cases: the table has an exception for these characters
IsSpecial(sub, table) == sub \in DOMAIN Literal /\ Literal[sub] \in DOMAIN table

\* special_cases[substring]
Special(sub, table) == table[Literal[sub]]

Reverse(s) == [i \in 1..Len(s) |-> s[Len(s) + 1 - i]]

RECURSIVE SplitFrom(_, _, _, _)
SplitFrom(s, i, cur, out) ==
  IF i > Len(s) THEN (IF cur = <<>> THEN out ELSE Append(out, cur))
  ELSE IF s[i] \in Whitespace
       THEN SplitFrom(s, i + 1, <<>>, IF cur = <<>> THEN out ELSE Append(out, cur))
       ELSE SplitFrom(s, i + 1, Append(cur, s[i]), out)

\* text.split(): the maximal runs of non-whitespace characters
Split(s) == SplitFrom(s, 1, <<>>, <<>>)

\* f_token_match of ct_tokenizer (lines 1012-1015)
f_token_match(s) ==
  token_match(s, build_token_match_rgx[1], build_token_match_rgx[2])

RECURSIVE PeelAffixes(_, _, _, _)
\* while prefix_search(substring) or suffix_search(substring): ...
\* Result: what is left of the substring, the tokens and the suffixes so far.
PeelAffixes(sub, toks, sufs, table) ==
  IF prefix_search(sub) = -1 /\ suffix_search(sub) = -1
  THEN [sub |-> sub, toks |-> toks, sufs |-> sufs]
  ELSE IF f_token_match(sub)
  THEN [sub |-> <<>>, toks |-> Append(toks, sub), sufs |-> sufs]
  ELSE IF IsSpecial(sub, table)
  THEN [sub |-> <<>>, toks |-> toks \o Orths(Special(sub, table)), sufs |-> sufs]
  ELSE
    LET p == prefix_search(sub)
        sub1 == IF p # -1 THEN Slice(sub, p, Len(sub)) ELSE sub
        toks1 == IF p # -1 THEN Append(toks, Slice(sub, 0, p)) ELSE toks
        q == suffix_search(sub1)
    IN IF p # -1 /\ IsSpecial(sub1, table)
       THEN PeelAffixes(sub1, toks1, sufs, table)
       ELSE IF q # -1
       THEN PeelAffixes(Slice(sub1, 0, q), toks1,
                        Append(sufs, Slice(sub1, q, Len(sub1))), table)
       ELSE PeelAffixes(sub1, toks1, sufs, table)

RECURSIVE InfixTokens(_, _, _, _, _)
\* for match in infixes: ... ; if substring[offset:]: tokens.append(...)
InfixTokens(sub, ms, n, offset, toks) ==
  IF n > Len(ms)
  THEN IF offset < Len(sub) THEN Append(toks, Slice(sub, offset, Len(sub))) ELSE toks
  ELSE IF offset = 0 /\ ms[n][1] = 0
  THEN InfixTokens(sub, ms, n + 1, offset, toks)
  ELSE InfixTokens(sub, ms, n + 1, ms[n][2],
                   toks \o <<Slice(sub, offset, ms[n][1]), Slice(sub, ms[n][1], ms[n][2])>>)

\* what follows the peeling loop: token_match, exception, infixes, or the rest
AttachTokens(sub, toks, table) ==
  IF f_token_match(sub) THEN Append(toks, sub)
  ELSE IF IsSpecial(sub, table) THEN toks \o Orths(Special(sub, table))
  ELSE IF infix_finditer(sub) # <<>>
  THEN InfixTokens(sub, infix_finditer(sub), 1, 0, toks)
  ELSE IF sub # <<>> THEN Append(toks, sub)
  ELSE toks

\* the tokens of one whitespace-delimited substring
TokenizeSubstring(sub, table) ==
  IF IsSpecial(sub, table) THEN Orths(Special(sub, table))
  ELSE LET r == PeelAffixes(sub, <<>>, <<>>, table)
       IN AttachTokens(r.sub, r.toks, table) \o Reverse(r.sufs)

RECURSIVE TokenizeAll(_, _, _)
TokenizeAll(subs, n, table) ==
  IF n > Len(subs) THEN <<>>
  ELSE TokenizeSubstring(subs[n], table) \o TokenizeAll(subs, n + 1, table)

\* tokenizer(text): the texts of the tokens
TokenizerCall(s, table) == TokenizeAll(Split(s), 1, table)

(***************************************************************************)
(* The tokenizer module in use                                             *)
(***************************************************************************)

\* strings a direct caller hands to token_match
TokenMatchInputs ==
  { <<"0", ".", "3", "/", "0", ".", "7">>, <<"1", "/", "2", ",">>, <<"q", ".", "4">> }

\* the characters of the strings given directly to prefix_re
ProbeChars == {"a", "Z", "4", "(", "-", "=", ">", ".", " "}

ProbeStrings == UNION {[1..n -> ProbeChars] : n \in 0..MaxProbeLen}

\* the order of the list itself
ListOrder == <<0, 0>>

(***************************************************************************)
(* tune_eval.py: state                                                     *)
(***************************************************************************)

Ranks == 0..(NumRanks - 1)
Epochs == 0..(MaxEpochs - 1)
Accs == 0..MaxAcc

\* what the control flow of main reads from its arguments and its data:
\* enable_fsdp; hsdp together with the HYBRID_SHARD sharding strategy (line
\* 202); run_validation set with a validation DataLoader of no batch (lines
\* 275-288); num_epochs; use_wandb
Configs ==
  [enable_fsdp : BOOLEAN, hsdp_hybrid : BOOLEAN, empty_eval_set : BOOLEAN,
   num_epochs : 0..MaxEpochs, use_wandb : BOOLEAN]

NoDir == [exists |-> FALSE, from |-> -1]
\* a best_model directory that an earlier run left in output_dir
StaleDir == [exists |-> TRUE, from |-> -1]
NoFile == [exists |-> FALSE, complete |-> FALSE, records |-> <<>>, best |-> <<>>]

\* tune_eval.py is not running
TuneIdle ==
  /\ cfg = [enable_fsdp |-> FALSE, hsdp_hybrid |-> FALSE, empty_eval_set |-> FALSE,
            num_epochs |-> 0, use_wandb |-> FALSE]
  /\ pc = [r \in Ranks |-> "off"]
  /\ stages = [r \in Ranks |-> <<>>]
  /\ epoch = [r \in Ranks |-> 0]
  /\ best_accuracy = [r \in Ranks |-> 0]
  /\ best_epoch = [r \in Ranks |-> -1]
  /\ all_results = [r \in Ranks |-> <<>>]
  /\ eval_results = [r \in Ranks |-> <<>>]
  /\ bar = [r \in Ranks |-> 0]
  /\ err = [r \in Ranks |-> ""]
  /\ ckpt = [e \in Epochs |-> "absent"]
  /\ best_dir = NoDir
  /\ perf_file = NoFile
  /\ evals = [e \in Epochs |-> <<>>]
  /\ wandb_run = [r \in Ranks |-> FALSE]
  /\ wandb_uses = [r \in Ranks |-> {}]

Init ==
  /\ special_cases = special_cases_list
  /\ order = ListOrder
  /\ tpc = "start"
  /\ idx = 0
  /\ rules = EmptyDict
  /\ visited = <<>>
  /\ calls = 0
  /\ loaded = <<>>
  /\ tk = 0
  /\ text = ""
  /\ tokens = <<>>
  /\ rgx = <<>>
  /\ probe = <<>>
  /\ tm_out = FALSE
  /\ pre_end = -1
  /\ TuneIdle

\* a loop that starts at the second entry
LoopEntriesSkipFirst(lst) == Tail(lst)

\* the entries the loading loop of ct_tokenizer iterates over (line 1025)
LoopEntries(lst) == lst

\* a loop body that consumes the attribute list it hands over
ListAfterAddConsumed(lst, i) == [lst EXCEPT ![i + 1] = <<lst[i + 1][1], <<>>>>]

\* special_cases after the loop body has handed entry number i + 1 to
\* add_special_case (line 1026): nothing assigns to the list or to its entries
ListAfterAdd(lst, i) == lst

\* ct_tokenizer lines 1008-1023: compile the patterns, construct the Tokenizer
ct_tokenizer_begin ==
  /\ tpc \in {"start", "ready"}
  /\ calls < MaxCalls
  /\ tpc' = "load"
  /\ idx' = 0
  /\ rules' = EmptyDict
  /\ visited' = <<>>
  \* the caller rebinds its tokenizer: what the previous one produced is dropped
  /\ tk' = 0
  /\ text' = ""
  /\ tokens' = <<>>
  /\ UNCHANGED <<special_cases, order, calls, loaded, rgx, probe, tm_out, pre_end>>
  /\ UNCHANGED tunevars

\* ct_tokenizer lines 1025-1026: one iteration of the loading loop
ct_tokenizer_add ==
  /\ tpc = "load"
  /\ idx < Len(LoopEntries(special_cases))
  /\ LET term == LoopEntries(special_cases)[idx + 1][1]
         attrib == LoopEntries(special_cases)[idx + 1][2]
     IN rules' = add_special_case(rules, term, attrib)
  /\ special_cases' = ListAfterAdd(special_cases, idx)
  /\ idx' = idx + 1
  /\ visited' = Append(visited, idx + 1)
  /\ UNCHANGED <<order, tpc, calls, loaded, tk, text, tokens, rgx, probe, tm_out, pre_end>>
  /\ UNCHANGED tunevars

\* ct_tokenizer line 1028: return tokenizer
ct_tokenizer_return ==
  /\ tpc = "load"
  /\ idx = Len(LoopEntries(special_cases))
  /\ tpc' = "ready"
  /\ calls' = calls + 1
  /\ loaded' = Append(loaded, rules)
  /\ UNCHANGED <<special_cases, order, idx, rules, visited, tk, text, tokens, rgx, probe, tm_out, pre_end>>
  /\ UNCHANGED tunevars

\* the returned tokenizer is applied to the string of the next entry of
\* special_cases, one entry after the other
tokenizer_call ==
  /\ tpc = "ready"
  /\ tk < Len(special_cases)
  /\ tk' = tk + 1
  /\ text' = special_cases[tk + 1][1]
  /\ tokens' = TokenizerCall(Chars[special_cases[tk + 1][1]], rules)
  /\ UNCHANGED <<special_cases, order, tpc, idx, rules, visited, calls, loaded, rgx, probe, tm_out, pre_end>>
  /\ UNCHANGED tunevars

\* a direct call of build_token_match_rgx
build_token_match_rgx_call ==
  /\ tpc \in {"start", "ready"}
  /\ rgx = <<>>
  /\ rgx' = build_token_match_rgx
  /\ UNCHANGED <<special_cases, order, tpc, idx, rules, visited, calls, loaded, tk, text, tokens, probe, tm_out, pre_end>>
  /\ UNCHANGED tunevars

\* a direct call of token_match with the patterns build_token_match_rgx gave
token_match_call ==
  /\ tpc \in {"start", "ready"}
  /\ rgx # <<>>
  /\ \E s \in TokenMatchInputs :
       /\ probe' = s
       /\ tm_out' = token_match(s, rgx[1], rgx[2])
  /\ UNCHANGED <<special_cases, order, tpc, idx, rules, visited, calls, loaded, tk, text, tokens, rgx, pre_end>>
  /\ UNCHANGED tunevars

Next ==
  \/ ct_tokenizer_begin
  \/ ct_tokenizer_add
  \/ ct_tokenizer_return
  \/ tokenizer_call
  \/ build_token_match_rgx_call
  \/ token_match_call

Spec == Init /\ [][Next]_vars

(***************************************************************************)
(* prefix_re on its own: the inputs are drawn at the start                 *)
(***************************************************************************)

PrefixInit ==
  /\ special_cases = special_cases_list
  /\ order = ListOrder
  /\ tpc = "start"
  /\ idx = 0
  /\ rules = EmptyDict
  /\ visited = <<>>
  /\ calls = 0
  /\ loaded = <<>>
  /\ tk = 0
  /\ text = ""
  /\ tokens = <<>>
  /\ rgx = <<>>
  /\ probe \in ProbeStrings
  /\ tm_out = FALSE
  /\ pre_end = -1
  /\ TuneIdle

\* prefix_re.search(probe), as the Tokenizer calls it through prefix_search
prefix_re_call ==
  /\ tpc = "start"
  /\ tpc' = "probed"
  /\ pre_end' = prefix_search(probe)
  /\ UNCHANGED <<special_cases, order, idx, rules, visited, calls, loaded, tk, text, tokens, rgx, probe, tm_out>>
  /\ UNCHANGED tunevars

PrefixNext == prefix_re_call

PrefixSpec == PrefixInit /\ [][PrefixNext]_vars

(***************************************************************************)
(* Loading the entries in another order than the list's                    *)
(***************************************************************************)

\* the pairs of list positions that hold the same term
SameTermPairs ==
  {p \in (1..Len(special_cases_list)) \X (1..Len(special_cases_list)) :
     p[1] < p[2] /\ special_cases_list[p[1]][1] = special_cases_list[p[2]][1]}

\* the list order, the reverse order, and the list order with the two
\* positions of a repeated term exchanged
Orders == {ListOrder, <<-1, -1>>} \cup SameTermPairs

\* the list position that is added as number n in order o
OrderAt(o, n, len) ==
  IF o = ListOrder THEN n
  ELSE IF o = <<-1, -1>> THEN len + 1 - n
  ELSE IF n = o[1] THEN o[2]
  ELSE IF n = o[2] THEN o[1]
  ELSE n

OrderInit ==
  /\ special_cases = special_cases_list
  /\ order \in Orders
  /\ tpc = "start"
  /\ idx = 0
  /\ rules = EmptyDict
  /\ visited = <<>>
  /\ calls = 0
  /\ loaded = <<>>
  /\ tk = 0
  /\ text = ""
  /\ tokens = <<>>
  /\ rgx = <<>>
  /\ probe = <<>>
  /\ tm_out = FALSE
  /\ pre_end = -1
  /\ TuneIdle

\* the loop body of ct_tokenizer, applied to the entries in the chosen order
add_in_order ==
  /\ tpc = "load"
  /\ idx < Len(special_cases)
  /\ LET at == OrderAt(order, idx + 1, Len(special_cases))
         term == special_cases[at][1]
         attrib == special_cases[at][2]
     IN /\ rules' = add_special_case(rules, term, attrib)
        /\ visited' = Append(visited, at)
  /\ special_cases' = ListAfterAdd(special_cases, idx)
  /\ idx' = idx + 1
  /\ UNCHANGED <<order, tpc, calls, loaded, tk, text, tokens, rgx, probe, tm_out, pre_end>>
  /\ UNCHANGED tunevars

OrderNext ==
  \/ ct_tokenizer_begin
  \/ add_in_order
  \/ ct_tokenizer_return

OrderSpec == OrderInit /\ [][OrderNext]_vars

(***************************************************************************)
(* tune_eval.py: main, the train loop and eval_callback, one process each  *)
(* rank under FSDP and one process otherwise                               *)
(***************************************************************************)

\* the processes that run main
Procs == IF cfg.enable_fsdp THEN Ranks ELSE {0}

\* "not train_config.enable_fsdp or rank == 0" (lines 345, 376, 382, 386, 431)
IsWriter(r) == ~cfg.enable_fsdp \/ r = 0

\* eval_callback without the barrier of lines 352-353
UsesBarrierNever(c) == FALSE

\* "if train_config.enable_fsdp: torch.distributed.barrier()" (lines 352-353)
UsesBarrier(c) == c.enable_fsdp

\* line 370 with >= in the place of >
IsBetterOrEqual(clinical_knowledge_acc, college_medicine_acc, best) ==
  clinical_knowledge_acc >= best

\* line 370 comparing the college-medicine accuracy instead
IsBetterCollege(clinical_knowledge_acc, college_medicine_acc, best) ==
  college_medicine_acc > best

\* "if clinical_knowledge_acc > best_accuracy" (line 370)
IsBetter(clinical_knowledge_acc, college_medicine_acc, best) ==
  clinical_knowledge_acc > best

\* lines 376-379: the process that replaces best_model by the checkpoint
PromotesCheckpoint(r) == IsWriter(r)

\* eval_callback without the rmtree of lines 382-383
DiscardsCheckpointNever(r) == FALSE

\* lines 382-383: the process that removes a checkpoint that is not the best
DiscardsCheckpoint(r) == IsWriter(r)

\* an entry of the per-process record of completed steps
Ev(name, e) == [ev |-> name, epoch |-> e]

\* the idle tokenizer module: tune_eval.py does not import it
TokIdle ==
  /\ special_cases = <<>>
  /\ order = ListOrder
  /\ tpc = "off"
  /\ idx = 0
  /\ rules = EmptyDict
  /\ visited = <<>>
  /\ calls = 0
  /\ loaded = <<>>
  /\ tk = 0
  /\ text = ""
  /\ tokens = <<>>
  /\ rgx = <<>>
  /\ probe = <<>>
  /\ tm_out = FALSE
  /\ pre_end = -1

\* main is entered by every process (lines 102-131); wandb_run is None
\* unless use_wandb is set and the process is rank 0 or the single process
TuneInit ==
  /\ TokIdle
  /\ cfg \in Configs
  /\ pc = [r \in Ranks |-> IF r \in Procs THEN "main" ELSE "off"]
  /\ stages = [r \in Ranks |-> <<>>]
  /\ epoch = [r \in Ranks |-> 0]
  /\ best_accuracy = [r \in Ranks |-> 0]
  /\ best_epoch = [r \in Ranks |-> -1]
  /\ all_results = [r \in Ranks |-> <<>>]
  /\ eval_results = [r \in Ranks |-> <<>>]
  /\ bar = [r \in Ranks |-> 0]
  /\ err = [r \in Ranks |-> ""]
  /\ ckpt = [e \in Epochs |-> "absent"]
  /\ best_dir \in {NoDir, StaleDir}
  /\ perf_file = NoFile
  /\ evals = [e \in Epochs |-> <<>>]
  /\ wandb_run = [r \in Ranks |-> r \in Procs /\ cfg.use_wandb /\ IsWriter(r)]
  /\ wandb_uses = [r \in Ranks |-> {}]

\* the process goes on to position p having completed step name
Step(r, p, name, e) ==
  /\ pc' = [pc EXCEPT ![r] = p]
  /\ stages' = [stages EXCEPT ![r] = Append(@, Ev(name, e))]

\* the process ends with an exception
Raise(r, exc) ==
  /\ pc' = [pc EXCEPT ![r] = "raised"]
  /\ err' = [err EXCEPT ![r] = exc]

\* lines 133-165: LlamaForCausalLM.from_pretrained
load_model(r) ==
  /\ pc[r] = "main"
  /\ Step(r, "tokenizer", "load_model", -1)
  /\ UNCHANGED <<cfg, wandb_run, wandb_uses,
                 epoch, best_accuracy, best_epoch, all_results, eval_results,
                 bar, err, ckpt, best_dir, perf_file, evals>>
  /\ UNCHANGED tokvars

\* lines 167-198: AutoTokenizer.from_pretrained, embeddings, PEFT (use_peft
\* set, as the peft= argument of evaluate_model needs it); "if wandb_run:"
\* guards wandb_run.config (lines 196-197)
load_tokenizer(r) ==
  /\ pc[r] = "tokenizer"
  /\ Step(r, "wrap", "load_tokenizer", -1)
  /\ wandb_uses' = [wandb_uses EXCEPT ![r] = IF wandb_run[r] THEN @ \cup {"config"} ELSE @]
  /\ UNCHANGED <<cfg, wandb_run,
                 epoch, best_accuracy, best_epoch, all_results, eval_results,
                 bar, err, ckpt, best_dir, perf_file, evals>>
  /\ UNCHANGED tokvars

\* lines 201-239.  Line 201 makes hsdp_device_mesh a local variable of main
\* that holds None, so the call of line 203 raises TypeError.  Otherwise the
\* model is wrapped in FSDP when enable_fsdp is set and moved to the device
\* when it is not.
wrap_model(r) ==
  /\ pc[r] = "wrap"
  /\ IF cfg.hsdp_hybrid
     THEN /\ Raise(r, "TypeError")
          /\ UNCHANGED stages
     ELSE /\ IF cfg.enable_fsdp
             THEN Step(r, "loaders", "wrap", -1)
             ELSE /\ pc' = [pc EXCEPT ![r] = "loaders"]
                  /\ UNCHANGED stages
          /\ UNCHANGED err
  /\ UNCHANGED <<cfg, wandb_run, wandb_uses,
                 epoch, best_accuracy, best_epoch, all_results, eval_results,
                 bar, ckpt, best_dir, perf_file, evals>>
  /\ UNCHANGED tokvars

\* lines 241-290: datasets and DataLoaders; ValueError when run_validation
\* is set and the validation loader has not one batch
build_data_loaders(r) ==
  /\ pc[r] = "loaders"
  /\ IF cfg.empty_eval_set
     THEN /\ Raise(r, "ValueError")
          /\ UNCHANGED stages
     ELSE /\ Step(r, "optimizer", "data_loaders", -1)
          /\ UNCHANGED err
  /\ UNCHANGED <<cfg, wandb_run, wandb_uses,
                 epoch, best_accuracy, best_epoch, all_results, eval_results,
                 bar, ckpt, best_dir, perf_file, evals>>
  /\ UNCHANGED tokvars

\* lines 292-308: optimizer and StepLR scheduler
build_optimizer(r) ==
  /\ pc[r] = "optimizer"
  /\ Step(r, "call_train", "optimizer", -1)
  /\ UNCHANGED <<cfg, wandb_run, wandb_uses,
                 epoch, best_accuracy, best_epoch, all_results, eval_results,
                 bar, err, ckpt, best_dir, perf_file, evals>>
  /\ UNCHANGED tokvars

\* lines 332-338 and 413-428: the best-performance variables, os.makedirs,
\* and the call of train
call_train(r) ==
  /\ pc[r] = "call_train"
  /\ best_accuracy' = [best_accuracy EXCEPT ![r] = 0]
  /\ best_epoch' = [best_epoch EXCEPT ![r] = -1]
  /\ all_results' = [all_results EXCEPT ![r] = <<>>]
  /\ epoch' = [epoch EXCEPT ![r] = 0]
  /\ Step(r, "train", "train", -1)
  /\ UNCHANGED <<cfg, wandb_run, wandb_uses,
                 eval_results, bar, err, ckpt, best_dir, perf_file, evals>>
  /\ UNCHANGED tokvars

\* utils.train_utils.train: one epoch of training, then
\* eval_callback(epoch, ...); train returns after num_epochs epochs
train_epoch(r) ==
  /\ pc[r] = "train"
  /\ pc' = [pc EXCEPT ![r] = IF epoch[r] < cfg.num_epochs THEN "cb_entry" ELSE "write"]
  /\ UNCHANGED <<cfg, wandb_run, wandb_uses,
                 stages, epoch, best_accuracy, best_epoch, all_results,
                 eval_results, bar, err, ckpt, best_dir, perf_file, evals>>
  /\ UNCHANGED tokvars

\* eval_callback lines 343-349 on the writing process: the checkpoint
\* directory model_epoch_<epoch> starts to be written
cb_save_begin(r) ==
  /\ pc[r] = "cb_entry"
  /\ IsWriter(r)
  /\ ckpt' = [ckpt EXCEPT ![epoch[r]] = "partial"]
  /\ pc' = [pc EXCEPT ![r] = "cb_saving"]
  /\ UNCHANGED <<cfg, wandb_run, wandb_uses,
                 stages, epoch, best_accuracy, best_epoch, all_results,
                 eval_results, bar, err, best_dir, perf_file, evals>>
  /\ UNCHANGED tokvars

\* save_pretrained / save_model_checkpoint returns
cb_save_end(r) ==
  /\ pc[r] = "cb_saving"
  /\ ckpt' = [ckpt EXCEPT ![epoch[r]] = "complete"]
  /\ Step(r, "cb_sync", "save", epoch[r])
  /\ UNCHANGED <<cfg, wandb_run, wandb_uses,
                 epoch, best_accuracy, best_epoch, all_results,
                 eval_results, bar, err, best_dir, perf_file, evals>>
  /\ UNCHANGED tokvars

\* line 345 on the other ranks: nothing is saved
cb_skip_save(r) ==
  /\ pc[r] = "cb_entry"
  /\ ~IsWriter(r)
  /\ pc' = [pc EXCEPT ![r] = "cb_sync"]
  /\ UNCHANGED <<cfg, wandb_run, wandb_uses,
                 stages, epoch, best_accuracy, best_epoch, all_results,
                 eval_results, bar, err, ckpt, best_dir, perf_file, evals>>
  /\ UNCHANGED tokvars

\* lines 351-353: the process enters torch.distributed.barrier() under FSDP
\* and goes straight to the evaluation otherwise
cb_barrier_enter(r) ==
  /\ pc[r] = "cb_sync"
  /\ IF UsesBarrier(cfg)
     THEN /\ bar' = [bar EXCEPT ![r] = @ + 1]
          /\ pc' = [pc EXCEPT ![r] = "cb_barrier"]
     ELSE /\ pc' = [pc EXCEPT ![r] = "cb_eval"]
          /\ UNCHANGED bar
  /\ UNCHANGED <<cfg, wandb_run, wandb_uses,
                 stages, epoch, best_accuracy, best_epoch, all_results,
                 eval_results, err, ckpt, best_dir, perf_file, evals>>
  /\ UNCHANGED tokvars

\* the barrier lets a process go when every process has entered it
cb_barrier_leave(r) ==
  /\ pc[r] = "cb_barrier"
  /\ \A q \in Procs : bar[q] >= bar[r]
  /\ pc' = [pc EXCEPT ![r] = "cb_eval"]
  /\ UNCHANGED <<cfg, wandb_run, wandb_uses,
                 stages, epoch, best_accuracy, best_epoch, all_results,
                 eval_results, bar, err, ckpt, best_dir, perf_file, evals>>
  /\ UNCHANGED tokvars

\* line 356, evaluate_model lines 396-403: the process begins evaluate_model
\* for its epoch
cb_eval_begin(r) ==
  /\ pc[r] = "cb_eval"
  /\ Step(r, "cb_loading", "eval_begin", epoch[r])
  /\ UNCHANGED <<cfg, wandb_run, wandb_uses,
                 epoch, best_accuracy, best_epoch, all_results,
                 eval_results, bar, err, ckpt, best_dir, perf_file, evals>>
  /\ UNCHANGED tokvars

\* evaluate_model lines 404-410: lm_eval.simple_evaluate loads the adapter
\* from output_dir/model_epoch_<epoch>; it fails when the directory is not
\* there or not completely written
cb_eval_load(r) ==
  /\ pc[r] = "cb_loading"
  /\ IF ckpt[epoch[r]] = "complete"
     THEN /\ pc' = [pc EXCEPT ![r] = "cb_evaluating"]
          /\ UNCHANGED err
     ELSE Raise(r, "OSError")
  /\ UNCHANGED <<cfg, wandb_run, wandb_uses,
                 stages, epoch, best_accuracy, best_epoch, all_results,
                 eval_results, bar, ckpt, best_dir, perf_file, evals>>
  /\ UNCHANGED tokvars

\* evaluate_model line 411: the results; every process that evaluates the
\* checkpoint of an epoch gets the same accuracies
cb_eval_end(r) ==
  /\ pc[r] = "cb_evaluating"
  /\ \E a \in Accs, b \in Accs :
       LET res == [clinical_knowledge_acc |-> a, college_medicine_acc |-> b]
       IN /\ evals[epoch[r]] \in {<<>>, <<res>>}
          /\ evals' = [evals EXCEPT ![epoch[r]] = <<res>>]
          /\ eval_results' = [eval_results EXCEPT ![r] = <<res>>]
  /\ Step(r, "cb_update", "eval_end", epoch[r])
  /\ UNCHANGED <<cfg, wandb_run, wandb_uses,
                 epoch, best_accuracy, best_epoch, all_results,
                 bar, err, ckpt, best_dir, perf_file>>
  /\ UNCHANGED tokvars

\* lines 386-394: the process that calls wandb_run.log
LogsToWandb(r) == IsWriter(r) /\ cfg.use_wandb

\* lines 358-394: record the epoch's results; a better clinical-knowledge
\* accuracy makes the epoch the best one and, on the writing process, its
\* checkpoint replaces best_model; otherwise the writing process removes the
\* checkpoint; then the results are logged and the callback returns to train
cb_update(r) ==
  /\ pc[r] = "cb_update"
  /\ LET e == epoch[r]
         clinical_knowledge_acc == eval_results[r][1].clinical_knowledge_acc
         college_medicine_acc == eval_results[r][1].college_medicine_acc
         better == IsBetter(clinical_knowledge_acc, college_medicine_acc, best_accuracy[r])
     IN /\ all_results' = [all_results EXCEPT ![r] =
             Append(@, [epoch |-> e + 1,
                        clinical_knowledge_acc |-> clinical_knowledge_acc,
                        college_medicine_acc |-> college_medicine_acc])]
        /\ best_accuracy' = [best_accuracy EXCEPT ![r] =
             IF better THEN clinical_knowledge_acc ELSE @]
        /\ best_epoch' = [best_epoch EXCEPT ![r] = IF better THEN e ELSE @]
        /\ IF better /\ PromotesCheckpoint(r)
           THEN /\ ckpt' = [ckpt EXCEPT ![e] = "absent"]
                /\ best_dir' = [exists |-> TRUE, from |-> e]
           ELSE IF ~better /\ DiscardsCheckpoint(r)
           THEN /\ ckpt' = [ckpt EXCEPT ![e] = "absent"]
                /\ UNCHANGED best_dir
           ELSE UNCHANGED <<ckpt, best_dir>>
        /\ Step(r, IF LogsToWandb(r) /\ ~wandb_run[r] THEN "raised" ELSE "train",
                IF better THEN "promote" ELSE "discard", e)
        /\ epoch' = [epoch EXCEPT ![r] = e + 1]
  /\ wandb_uses' = [wandb_uses EXCEPT ![r] = IF LogsToWandb(r) THEN @ \cup {"log"} ELSE @]
  /\ err' = [err EXCEPT ![r] = IF LogsToWandb(r) /\ ~wandb_run[r] THEN "AttributeError" ELSE @]
  /\ UNCHANGED <<cfg, wandb_run, eval_results, bar, perf_file, evals>>
  /\ UNCHANGED tokvars

\* the 'Best Performance' section (lines 444-448); all_results[best_epoch]
\* with best_epoch = -1 is the last record
BestRecord(r) ==
  [epoch |-> best_epoch[r] + 1,
   clinical_knowledge_acc |-> best_accuracy[r],
   college_medicine_acc |->
     all_results[r][IF best_epoch[r] >= 0 THEN best_epoch[r] + 1
                    ELSE Len(all_results[r])].college_medicine_acc]

\* lines 430-450, after train has returned: the writing process writes
\* best_model/performance_results.txt.  open() raises FileNotFoundError when
\* best_model does not exist; line 448 raises IndexError when all_results is
\* empty, after the records and the first lines of the last section are written.
write_results(r) ==
  /\ pc[r] = "write"
  /\ IF ~IsWriter(r)
     THEN /\ pc' = [pc EXCEPT ![r] = "summary"]
          /\ UNCHANGED <<err, perf_file>>
     ELSE IF ~best_dir.exists
     THEN /\ Raise(r, "FileNotFoundError")
          /\ UNCHANGED perf_file
     ELSE IF all_results[r] = <<>>
     THEN /\ Raise(r, "IndexError")
          /\ perf_file' = [exists |-> TRUE, complete |-> FALSE,
                           records |-> <<>>, best |-> <<>>]
     ELSE /\ pc' = [pc EXCEPT ![r] = "summary"]
          /\ perf_file' = [exists |-> TRUE, complete |-> TRUE,
                           records |-> all_results[r], best |-> <<BestRecord(r)>>]
          /\ UNCHANGED err
  /\ UNCHANGED <<cfg, wandb_run, wandb_uses,
                 stages, epoch, best_accuracy, best_epoch, all_results,
                 eval_results, bar, ckpt, best_dir, evals>>
  /\ UNCHANGED tokvars

\* lines 452-454: the process that sets wandb_run.summary
WritesSummary(r) == cfg.use_wandb

\* lines 452-456: the summary and "return results"; wandb_run.summary on a
\* process whose wandb_run is None raises AttributeError
main_return(r) ==
  /\ pc[r] = "summary"
  /\ wandb_uses' = [wandb_uses EXCEPT ![r] = IF WritesSummary(r) THEN @ \cup {"summary"} ELSE @]
  /\ IF WritesSummary(r) /\ ~wandb_run[r]
     THEN Raise(r, "AttributeError")
     ELSE /\ pc' = [pc EXCEPT ![r] = "done"]
          /\ UNCHANGED err
  /\ UNCHANGED <<cfg, wandb_run, stages, epoch, best_accuracy, best_epoch, all_results,
                 eval_results, bar, ckpt, best_dir, perf_file, evals>>
  /\ UNCHANGED tokvars

TuneNext ==
  \E r \in Ranks :
    \/ load_model(r)
    \/ load_tokenizer(r)
    \/ wrap_model(r)
    \/ build_data_loaders(r)
    \/ build_optimizer(r)
    \/ call_train(r)
    \/ train_epoch(r)
    \/ cb_save_begin(r)
    \/ cb_save_end(r)
    \/ cb_skip_save(r)
    \/ cb_barrier_enter(r)
    \/ cb_barrier_leave(r)
    \/ cb_eval_begin(r)
    \/ cb_eval_load(r)
    \/ cb_eval_end(r)
    \/ cb_update(r)
    \/ write_results(r)
    \/ main_return(r)

TuneSpec == TuneInit /\ [][TuneNext]_vars

(***************************************************************************)
(* Claims                                                                  *)
(***************************************************************************)

\* C1: for every entry of special_cases, the tokenizer ct_tokenizer returned
\* turns the text that is exactly the entry's string into one token whose
\* text is that string.
C1_OneTokenPerEntry ==
  (tpc = "ready" /\ text # "") => tokens = <<Chars[text]>>

\* C2: every character a prefix_re match consumes is punctuation or a
\* symbol, never a digit or a letter.
C2_PrefixPeelsOnlyPunctuation ==
  (tpc = "probed" /\ pre_end > 0) =>
    \A i \in 1..pre_end : probe[i] \notin (Digits \cup Letters)

\* C5: after ct_tokenizer returns, the exception table holds every term of
\* special_cases with the attribute list given for it, and the loading loop
\* has visited every list entry exactly once (the positions 1, 2, ... in turn).
C5_TableHoldsEveryEntry ==
  tpc = "ready" =>
    /\ \A i \in 1..Len(special_cases) :
         /\ special_cases[i][1] \in DOMAIN rules
         /\ rules[special_cases[i][1]] = special_cases[i][2]
    /\ Len(visited) = Len(special_cases)
    /\ \A j \in 1..Len(visited) : visited[j] = j

C5_Witness ==
  /\ tpc = "ready"
  /\ calls = 1
  /\ Len(visited) = Len(special_cases)
  /\ "E.C." \in DOMAIN rules

\* the table that holds, for every term of the list, the attribute list of
\* the first entry with that term
FirstAttribTable ==
  [t \in {special_cases_list[i][1] : i \in 1..Len(special_cases_list)} |->
     special_cases_list[CHOOSE i \in 1..Len(special_cases_list) :
        /\ special_cases_list[i][1] = t
        /\ \A j \in 1..(i - 1) : special_cases_list[j][1] # t][2]]

\* C6: no term occurs in special_cases with two different attribute lists:
\* whenever an entry is added whose term the table already holds, the table
\* holds the same attribute list for it, and in every order of adding the
\* entries the finished table is the same one.
C6_SameTableInEveryOrder ==
  /\ (tpc = "load" /\ idx < Len(special_cases)) =>
       LET at == OrderAt(order, idx + 1, Len(special_cases))
       IN special_cases[at][1] \in DOMAIN rules =>
            rules[special_cases[at][1]] = special_cases[at][2]
  /\ tpc = "ready" => rules = FirstAttribTable

C6_Witness ==
  /\ tpc = "ready"
  /\ order = <<-1, -1>>
  /\ Len(visited) = Len(special_cases)
  /\ "a.fib" \in DOMAIN rules

\* C7: every entry (term, attrib) of special_cases has an attrib of exactly
\* one token description, whose only attribute is ORTH and whose ORTH value
\* is the term.
C7_EveryEntryIsDoNotSplit ==
  \A i \in 1..Len(special_cases) :
    /\ Len(special_cases[i]) = 2
    /\ Len(special_cases[i][2]) = 1
    /\ DOMAIN special_cases[i][2][1] = {"ORTH"}
    /\ special_cases[i][2][1].ORTH = special_cases[i][1]

C7_Witness ==
  /\ tpc = "load"
  /\ idx = Len(special_cases)
  /\ Len(special_cases) > 900

\* C8: no sequence of calls of build_token_match_rgx, token_match and
\* ct_tokenizer changes special_cases, and successive ct_tokenizer calls load
\* the same rules.
C8_SpecialCasesUnchanged ==
  /\ special_cases = special_cases_list
  /\ \A a \in DOMAIN loaded : \A b \in DOMAIN loaded : loaded[a] = loaded[b]

C8_Witness ==
  /\ calls = 2
  /\ Len(loaded) = 2
  /\ rgx # <<>>
  /\ probe # <<>>

\* the stages of main a process has completed, in the order it completed them
MainStages(r) == SelectSeq(stages[r], LAMBDA x : x.epoch = -1)

SixStages ==
  <<Ev("load_model", -1), Ev("load_tokenizer", -1), Ev("wrap", -1),
    Ev("data_loaders", -1), Ev("optimizer", -1), Ev("train", -1)>>

\* C3: in every run of main with FSDP enabled (the run that line 288 refuses
\* with ValueError aside) the six stages load model, load tokenizer, wrap,
\* data loaders, optimizer, train occur once each and in this order, and in
\* every callback the epoch's evaluation has completed before the checkpoint
\* is promoted to best_model.
C3_StagesOnceInOrder ==
  \A r \in Procs :
    cfg.enable_fsdp =>
      /\ (pc[r] \in {"raised", "done"} /\ err[r] # "ValueError")
           => MainStages(r) = SixStages
      /\ \A i \in DOMAIN stages[r] :
           stages[r][i].ev = "promote" =>
             \E j \in 1..(i - 1) : stages[r][j] = Ev("eval_end", stages[r][i].epoch)

\* train has returned on process r
TrainReturned(r) ==
  \/ pc[r] \in {"summary", "done"}
  \/ pc[r] = "raised" /\ err[r] \in {"FileNotFoundError", "IndexError"}

\* C4: once train has returned and the writing process (rank 0, or the single
\* process without FSDP) has passed lines 430-450, performance_results.txt
\* exists in best_model and holds one record per evaluated epoch followed by
\* the best-performance record, whatever the accuracies of the epochs were
\* (stated for the runs that evaluated at least one epoch).
C4_ResultsFileWritten ==
  \A r \in Procs :
    (IsWriter(r) /\ TrainReturned(r) /\ Len(all_results[r]) >= 1) =>
      /\ perf_file.exists
      /\ perf_file.complete
      /\ perf_file.records = all_results[r]
      /\ Len(perf_file.best) = 1

ClinicalAccs(r) ==
  {all_results[r][i].clinical_knowledge_acc : i \in DOMAIN all_results[r]}

\* C9: after any sequence of eval_callback invocations best_accuracy is the
\* maximum of 0 and the clinical_knowledge_acc of every epoch evaluated so
\* far, and no step makes best_accuracy smaller.
C9_BestAccuracyIsRunningMax ==
  /\ [](\A r \in Ranks : best_accuracy[r] = SetMax({0} \cup ClinicalAccs(r)))
  /\ [][\A r \in Ranks : best_accuracy'[r] >= best_accuracy[r]]_vars

C9_Witness ==
  \E r \in Procs :
    /\ Len(all_results[r]) = 2
    /\ all_results[r][1].clinical_knowledge_acc > 0
    /\ all_results[r][2].clinical_knowledge_acc < all_results[r][1].clinical_knowledge_acc
    /\ all_results[r][2].college_medicine_acc > all_results[r][2].clinical_knowledge_acc
    /\ best_accuracy[r] = all_results[r][1].clinical_knowledge_acc

\* C10: under FSDP with several ranks, when a rank has begun evaluate_model
\* for epoch e, rank 0 has already finished saving model_epoch_e.
C10_SaveBeforeEveryEvaluation ==
  cfg.enable_fsdp =>
    \A r \in Procs : \A i \in DOMAIN stages[r] :
      stages[r][i].ev = "eval_begin" =>
        \E j \in DOMAIN stages[0] : stages[0][j] = Ev("save", stages[r][i].epoch)

C10_Witness ==
  /\ cfg.enable_fsdp
  /\ \E r \in Procs \ {0} :
       /\ pc[r] = "cb_loading"
       /\ epoch[r] = 1
       /\ pc[0] = "cb_barrier"

\* C11: under FSDP with several ranks, while a rank is inside evaluate_model
\* for epoch e (from its call at line 356 to its return) the directory
\* model_epoch_e is there and complete: rank 0 has neither renamed it to
\* best_model nor removed it.
C11_CheckpointKeptDuringEvaluation ==
  cfg.enable_fsdp =>
    \A r \in Procs :
      pc[r] \in {"cb_loading", "cb_evaluating"} => ckpt[epoch[r]] = "complete"

\* the file-writing process (rank 0, or the single process) is between two
\* eval_callback invocations or past the last one, having completed one
BetweenEpochs ==
  /\ epoch[0] >= 1
  /\ \/ pc[0] \in {"train", "write", "summary", "done"}
     \/ pc[0] = "raised" /\ TrainReturned(0)

\* C12: after every completed eval_callback invocation on the file-writing
\* process output_dir holds no model_epoch_* directory: the callback ended
\* with the epoch's checkpoint renamed to best_model or removed.
C12_NoCheckpointLeftBetweenEpochs ==
  BetweenEpochs =>
    /\ \A e \in Epochs : ckpt[e] = "absent"
    /\ \/ stages[0][Len(stages[0])] = Ev("discard", epoch[0] - 1)
       \/ /\ stages[0][Len(stages[0])] = Ev("promote", epoch[0] - 1)
          /\ best_dir = [exists |-> TRUE, from |-> epoch[0] - 1]

C12_Witness ==
  /\ pc[0] = "train"
  /\ epoch[0] = 2
  /\ best_dir = [exists |-> TRUE, from |-> 0]
  /\ stages[0][Len(stages[0])] = Ev("discard", 1)

\* C13: after every completed eval_callback invocation on the file-writing
\* process, output_dir/best_model exists exactly when best_epoch is not -1,
\* and when it exists it is the checkpoint saved for epoch best_epoch.
C13_BestModelIffBestEpoch ==
  BetweenEpochs =>
    /\ best_dir.exists <=> best_epoch[0] # -1
    /\ best_dir.exists => best_dir.from = best_epoch[0]

\* C14: the three fields of the 'Best Performance' section of
\* performance_results.txt (epoch, clinical-knowledge accuracy,
\* college-medicine accuracy) are the fields of one evaluated epoch record of
\* the file, whatever the accuracies of the epochs were.
C14_BestFieldsFromOneRecord ==
  perf_file.complete =>
    \E i \in DOMAIN perf_file.records : perf_file.records[i] = perf_file.best[1]

\* process r completes eval_callback for an epoch whose clinical-knowledge
\* accuracy equals best_accuracy
TieStep(r) ==
  /\ pc[r] = "cb_update"
  /\ pc'[r] = "train"
  /\ eval_results[r][1].clinical_knowledge_acc = best_accuracy[r]

C16_WandbRunNeverNone ==
  \A r \in Procs : wandb_uses[r] # {} => wandb_run[r]

====
